---- MODULE Spec2Model ----
(***************************************************************************)
(* Verification side of the winterfell STARK protocol: the out-of-domain   *)
(* frame codec (air/src/proof/ood_frame.rs) and the verification procedure *)
(* (verifier/src/lib.rs).                                                  *)
(***************************************************************************)
EXTENDS Integers, Sequences, FiniteSets, TLC

VARIABLES
    \* ---- OodFrame (ood_frame.rs:32-36) and the calls made on it
    trace_states,                  \* OodFrame.trace_states : Vec<u8>
    lagrange_kernel_trace_states,  \* OodFrame.lagrange_kernel_trace_states : Vec<u8>
    evaluations,                   \* OodFrame.evaluations : Vec<u8>
    ood_pc,                        \* "live" | "parsed" | "panic"
    arg_trace,                     \* argument of the set_trace_states call that wrote the frame
    arg_evals,                     \* argument of the set_constraint_evaluations call that wrote it
    returned,                      \* value returned by set_trace_states
    parse_args,                    \* (main_trace_width, aux_trace_width, num_evaluations)
    parsed,                        \* result of parse
    last_call,                     \* the last call made on the frame and the size of its argument
    wire,                          \* the bytes write_into wrote: the unread bytes of read_from's source
    \* ---- one run of verify (lib.rs:90-303)
    pc,                            \* position in verify / perform_verification
    env,                           \* the proof, the AIR and the caller's arguments
    validated,                     \* what acceptable_options.validate returned
    result,                        \* what the run ended with
    log,                           \* every policy, AIR, coin and channel operation so far
    aux_trace_rand_elements,       \* the variable of that name at lib.rs:165
    ood_constraint_evaluation_1,   \* value of evaluate_constraints at z
    ood_constraint_evaluation_2,   \* fold of the composition-column evaluations at z
    drawn_positions,               \* what draw_integers returned
    query_positions,               \* query_positions after sort_unstable and dedup
    run,                           \* 1 for the first call of verify, 2 for a repeated one
    first,                         \* what the first call did and returned
    determined,                    \* what the inputs make of each operation, by transcript point
    \* ---- one call of AcceptableOptions::validate (lib.rs:320-347)
    acceptable_options,            \* self
    proof,                         \* what validate reads of the proof
    validate_result,               \* what the call returned
    \* ---- one call of evaluate_constraints (evaluator.rs:14-119)
    air,                           \* what the computation descriptor answers
    evaluate_args,                 \* the frames and the point x of the call
    evaluated,                     \* what the call returned
    \* ---- one fold of the composition-column evaluations (lib.rs:218-225)
    fold_args,                     \* z, air.trace_length() and the evaluations read
    folded,                        \* ood_constraint_evaluation_2
    \* ---- the frames of one OodFrameTraceStates (ood_frame.rs:232-304)
    states,                        \* the trace states the accessors are called on
    main_frame,                    \* what main_frame() returned
    aux_frame,                     \* what aux_frame() returned
    \* ---- one call of an auxiliary trace builder (aux_trace_builder.rs:25-48)
    builder,                       \* which builder, and its width parameter
    main_trace,                    \* the main trace: a sequence of columns
    transcript,                    \* the random coin: its position and the draws made
    built,                         \* the AuxTraceWithMetadata returned
    \* ---- VdfProver (vdf/exempt/prover.rs:28-66)
    vdf_args,                      \* seed and n of build_trace
    vdf_trace,                     \* the trace build_trace returned
    pub_inputs                     \* what get_pub_inputs returned

oodvars == <<trace_states, lagrange_kernel_trace_states, evaluations, ood_pc,
             arg_trace, arg_evals, returned, parse_args, parsed,
             last_call, wire>>
vervars == <<pc, env, validated, result, log, aux_trace_rand_elements,
             ood_constraint_evaluation_1, ood_constraint_evaluation_2,
             drawn_positions, query_positions, run, first, determined>>
polvars == <<acceptable_options, proof, validate_result>>
algvars == <<air, evaluate_args, evaluated, fold_args, folded>>
frmvars == <<states, main_frame, aux_frame>>
bldvars == <<builder, main_trace, transcript, built>>
vdfvars == <<vdf_args, vdf_trace, pub_inputs>>
vars == <<oodvars, vervars, polvars, algvars, frmvars, bldvars, vdfvars>>

----------------------------------------------------------------------------
(* Bounds of the model *)

MaxWidth == 1        \* widest trace row (main + auxiliary columns)
MaxLagrange == 2     \* longest Lagrange kernel evaluation sequence
MaxEvals == 1        \* most constraint composition column evaluations
ElementBytes == 2    \* bytes of one serialized field element

\* Field elements written to frames: one fits a byte, one needs two.
Elems == {1, 258}

SeqsUpTo(S, n) == UNION {[1..k -> S] : k \in 0..n}
SeqsOfLen(S, k) == [1..k -> S]

----------------------------------------------------------------------------
(* Byte encoding of field elements (ByteWriter / ByteReader) *)

\* Serializable::write_into of one element: little-endian, ElementBytes bytes
ElementToBytes(e) == [i \in 1..ElementBytes |-> (e \div (256 ^ (i - 1))) % 256]

RECURSIVE BytesToElement(_)
BytesToElement(bs) ==
    IF bs = <<>> THEN 0 ELSE Head(bs) + 256 * BytesToElement(Tail(bs))

\* ByteWriter::write_many: the elements' encodings one after another
WriteMany(elems) ==
    [i \in 1..(Len(elems) * ElementBytes) |->
        ElementToBytes(elems[((i - 1) \div ElementBytes) + 1])[((i - 1) % ElementBytes) + 1]]

\* ByteReader::read_many(n) on the unread bytes bs: n elements and the bytes left,
\* or an error when fewer than n elements' bytes remain
ReadMany(bs, n) ==
    IF Len(bs) < n * ElementBytes
    THEN [ok |-> FALSE, elems |-> <<>>, rest |-> <<>>]
    ELSE [ok |-> TRUE,
          elems |-> [i \in 1..n |->
                        BytesToElement(SubSeq(bs, (i - 1) * ElementBytes + 1, i * ElementBytes))],
          rest |-> SubSeq(bs, n * ElementBytes + 1, Len(bs))]

----------------------------------------------------------------------------
(* OodFrame *)

None == [some |-> FALSE, val |-> <<>>]
Some(v) == [some |-> TRUE, val |-> v]

\* OodFrameTraceStates::new
OodFrameTraceStates(current_row, next_row, main_trace_width, lagrange_kernel_frame) ==
    [current_row |-> current_row, next_row |-> next_row,
     main_trace_width |-> main_trace_width,
     lagrange_kernel_frame |-> lagrange_kernel_frame]

NoTraceStates == OodFrameTraceStates(<<>>, <<>>, 0, None)

\* the loop with the two pushes exchanged
RECURSIVE InterleaveNextFirst(_, _)
InterleaveNextFirst(current_row, next_row) ==
    IF current_row = <<>> THEN <<>>
    ELSE <<Head(next_row), Head(current_row)>>
             \o InterleaveNextFirst(Tail(current_row), Tail(next_row))

\* the loop of set_trace_states: current and next interleaved column by column
RECURSIVE Interleave(_, _)
Interleave(current_row, next_row) ==
    IF current_row = <<>> THEN <<>>
    ELSE <<Head(current_row), Head(next_row)>> \o Interleave(Tail(current_row), Tail(next_row))

\* frame_size in set_trace_states
FrameSize == 2

\* u8::MAX
U8Max == 255

\* a writer that leaves the Lagrange kernel frame out
LagrangeStatesDropped(ts) == <<>>

\* the match on trace_states.lagrange_kernel_frame in set_trace_states
LagrangeStatesOf(ts) ==
    IF ts.lagrange_kernel_frame.some THEN ts.lagrange_kernel_frame.val ELSE <<>>

Call(op, n) == [op |-> op, n |-> n]
NoCall == Call("none", 0)

NoParse == [status |-> "none", current_row |-> <<>>, next_row |-> <<>>,
            main_trace_width |-> 0, lagrange_kernel_frame |-> None, evaluations |-> <<>>]

\* set_trace_states without its assert!: a second call appends to the regions
SetTraceStatesUnchecked(ts) ==
    /\ ood_pc = "live"
    /\ LET res == Interleave(ts.current_row, ts.next_row)
           lagrange_trace_states == LagrangeStatesOf(ts)
       IN  /\ trace_states' = trace_states \o <<FrameSize>> \o WriteMany(res)
           /\ lagrange_kernel_trace_states' =
                  lagrange_kernel_trace_states
                      \o <<Len(lagrange_trace_states) % 256>>
                      \o WriteMany(lagrange_trace_states)
           /\ returned' = res \o lagrange_trace_states
           /\ arg_trace' = ts
           /\ UNCHANGED ood_pc
    /\ last_call' = Call("set_trace_states", Len(ts.current_row))
    /\ UNCHANGED <<evaluations, arg_evals, parse_args, parsed, wire>>
    /\ UNCHANGED <<vervars, polvars, algvars, frmvars, bldvars, vdfvars>>

\* OodFrame::set_trace_states
SetTraceStates(ts) ==
    /\ ood_pc = "live"
    /\ IF trace_states # <<>>
       THEN \* assert!(self.trace_states.is_empty())
            /\ ood_pc' = "panic"
            /\ UNCHANGED <<trace_states, lagrange_kernel_trace_states, arg_trace, returned>>
       ELSE LET res == Interleave(ts.current_row, ts.next_row)
                lagrange_trace_states == LagrangeStatesOf(ts)
            IN  /\ trace_states' = <<FrameSize>> \o WriteMany(res)
                /\ arg_trace' = ts
                /\ \E debug_assertions \in BOOLEAN :
                       IF debug_assertions /\ ~(Len(lagrange_trace_states) < U8Max)
                       THEN \* debug_assert!(lagrange_trace_states.len() < u8::MAX.into())
                            /\ ood_pc' = "panic"
                            /\ UNCHANGED <<lagrange_kernel_trace_states, returned>>
                       ELSE /\ lagrange_kernel_trace_states' =
                                   lagrange_kernel_trace_states
                                       \o <<Len(lagrange_trace_states) % 256>>
                                       \o WriteMany(lagrange_trace_states)
                            /\ returned' = res \o lagrange_trace_states
                            /\ UNCHANGED ood_pc
    /\ last_call' = Call("set_trace_states", Len(ts.current_row))
    /\ UNCHANGED <<evaluations, arg_evals, parse_args, parsed, wire>>
    /\ UNCHANGED <<vervars, polvars, algvars, frmvars, bldvars, vdfvars>>

\* OodFrame::set_constraint_evaluations
SetConstraintEvaluations(evals) ==
    /\ ood_pc = "live"
    /\ IF evaluations # <<>> \/ evals = <<>>
       THEN \* the two assert!s
            /\ ood_pc' = "panic"
            /\ UNCHANGED <<evaluations, arg_evals>>
       ELSE /\ evaluations' = evaluations \o WriteMany(evals)
            /\ arg_evals' = evals
            /\ UNCHANGED ood_pc
    /\ last_call' = Call("set_constraint_evaluations", Len(evals))
    /\ UNCHANGED <<trace_states, lagrange_kernel_trace_states, arg_trace, returned,
                   parse_args, parsed, wire>>
    /\ UNCHANGED <<vervars, polvars, algvars, frmvars, bldvars, vdfvars>>

\* the while loop of parse: pairs are popped off the tail of `trace`; the first
\* popped element of each pair goes to current_row, the second to next_row.
\* An odd number of elements makes the second pop of the last round fail.
PopPairs(trace) ==
    LET n == Len(trace)
    IN  [panic |-> (n % 2 = 1),
         current_row |-> [i \in 1..(n \div 2) |-> trace[n - 2 * (i - 1)]],
         next_row |-> [i \in 1..(n \div 2) |-> trace[n - 2 * (i - 1) - 1]]]

ParseError == [NoParse EXCEPT !.status = "Err"]
ParsePanic == [NoParse EXCEPT !.status = "Panic"]

\* OodFrame::parse as a function of the three byte regions
ParseFrame(ts_bytes, lk_bytes, ev_bytes, main_trace_width, aux_trace_width, num_evaluations) ==
    IF main_trace_width = 0 \/ num_evaluations = 0 THEN ParsePanic
    ELSE IF ts_bytes = <<>> THEN ParseError                    \* read_u8()?
    ELSE
    LET frame_size == Head(ts_bytes)
        trace == ReadMany(Tail(ts_bytes), (main_trace_width + aux_trace_width) * frame_size)
    IN IF ~trace.ok THEN ParseError
       ELSE IF trace.rest # <<>> THEN ParseError               \* UnconsumedBytes
       ELSE
       LET rows == PopPairs(trace.elems)
       IN IF rows.panic THEN ParsePanic
          ELSE IF lk_bytes = <<>> THEN ParseError              \* read_u8()?
          ELSE
          LET lagrange_kernel_frame_size == Head(lk_bytes)
              lk == ReadMany(Tail(lk_bytes), lagrange_kernel_frame_size)
          IN IF lagrange_kernel_frame_size > 0 /\ ~lk.ok THEN ParseError
             ELSE
             LET lagrange_kernel_frame ==
                     IF lagrange_kernel_frame_size > 0 THEN Some(lk.elems) ELSE None
                 ev == ReadMany(ev_bytes, num_evaluations)
             IN IF ~ev.ok THEN ParseError
                ELSE IF ev.rest # <<>> THEN ParseError         \* UnconsumedBytes
                ELSE [status |-> "Ok",
                      current_row |-> rows.current_row,
                      next_row |-> rows.next_row,
                      main_trace_width |-> main_trace_width,
                      lagrange_kernel_frame |-> lagrange_kernel_frame,
                      evaluations |-> ev.elems]

\* OodFrame::parse: consumes the frame
Parse(main_trace_width, aux_trace_width, num_evaluations) ==
    /\ ood_pc = "live"
    /\ parse_args' = <<main_trace_width, aux_trace_width, num_evaluations>>
    /\ parsed' = ParseFrame(trace_states, lagrange_kernel_trace_states, evaluations,
                            main_trace_width, aux_trace_width, num_evaluations)
    /\ ood_pc' = IF parsed'.status = "Panic" THEN "panic" ELSE "parsed"
    /\ last_call' = Call("parse", 0)
    /\ UNCHANGED <<trace_states, lagrange_kernel_trace_states, evaluations,
                   arg_trace, arg_evals, returned, wire>>
    /\ UNCHANGED <<vervars, polvars, algvars, frmvars, bldvars, vdfvars>>

----------------------------------------------------------------------------
(* Wire form of the frame: Serializable / Deserializable for OodFrame *)

\* `len() as u16`: the length modulo 2^16
U16Modulus == 2 ^ 16
AsU16(n) == n % U16Modulus

\* ByteWriter::write_u16 / ByteReader::read_u16: two bytes, little-endian
WriteU16(v) == <<v % 256, v \div 256>>

ReadU16(bs) ==
    IF Len(bs) < 2 THEN [ok |-> FALSE, val |-> 0, rest |-> <<>>]
    ELSE [ok |-> TRUE, val |-> bs[1] + 256 * bs[2], rest |-> SubSeq(bs, 3, Len(bs))]

\* ByteReader::read_vec(n): the next n bytes, or an error when fewer remain
ReadVec(bs, n) ==
    IF Len(bs) < n THEN [ok |-> FALSE, val |-> <<>>, rest |-> <<>>]
    ELSE [ok |-> TRUE, val |-> SubSeq(bs, 1, n), rest |-> SubSeq(bs, n + 1, Len(bs))]

\* write_into: each region as its length cast to u16 and then all its bytes
WriteIntoBytes(ts_bytes, lk_bytes, ev_bytes) ==
    WriteU16(AsU16(Len(ts_bytes))) \o ts_bytes
        \o WriteU16(AsU16(Len(lk_bytes))) \o lk_bytes
        \o WriteU16(AsU16(Len(ev_bytes))) \o ev_bytes

ReadError == [ok |-> FALSE, trace_states |-> <<>>, lagrange_kernel_trace_states |-> <<>>,
              evaluations |-> <<>>, rest |-> <<>>]

\* read_from: three times a u16 length and that many bytes
ReadFromBytes(source) ==
    LET num_trace_state_bytes == ReadU16(source)
    IN IF ~num_trace_state_bytes.ok THEN ReadError ELSE
       LET ts == ReadVec(num_trace_state_bytes.rest, num_trace_state_bytes.val)
       IN IF ~ts.ok THEN ReadError ELSE
          LET num_lagrange_state_bytes == ReadU16(ts.rest)
          IN IF ~num_lagrange_state_bytes.ok THEN ReadError ELSE
             LET lk == ReadVec(num_lagrange_state_bytes.rest, num_lagrange_state_bytes.val)
             IN IF ~lk.ok THEN ReadError ELSE
                LET num_constraint_evaluation_bytes == ReadU16(lk.rest)
                IN IF ~num_constraint_evaluation_bytes.ok THEN ReadError ELSE
                   LET ev == ReadVec(num_constraint_evaluation_bytes.rest,
                                     num_constraint_evaluation_bytes.val)
                   IN IF ~ev.ok THEN ReadError
                      ELSE [ok |-> TRUE, trace_states |-> ts.val,
                            lagrange_kernel_trace_states |-> lk.val,
                            evaluations |-> ev.val, rest |-> ev.rest]

\* Serializable::write_into(&self, target)
WriteInto ==
    /\ ood_pc = "live"
    /\ wire' = WriteIntoBytes(trace_states, lagrange_kernel_trace_states, evaluations)
    /\ last_call' = Call("write_into", 0)
    /\ UNCHANGED <<trace_states, lagrange_kernel_trace_states, evaluations, ood_pc,
                   arg_trace, arg_evals, returned, parse_args, parsed>>
    /\ UNCHANGED <<vervars, polvars, algvars, frmvars, bldvars, vdfvars>>

\* Deserializable::read_from(source), the source being a reader over the bytes
\* of wire: the frame read replaces the one at hand, the source keeps what was
\* not read
ReadFrom ==
    /\ \/ ood_pc = "source"
       \/ ood_pc = "live" /\ wire # <<>>
    /\ LET r == ReadFromBytes(wire)
       IN  IF r.ok
           THEN /\ trace_states' = r.trace_states
                /\ lagrange_kernel_trace_states' = r.lagrange_kernel_trace_states
                /\ evaluations' = r.evaluations
                /\ wire' = r.rest
                /\ ood_pc' = "live"
           ELSE /\ ood_pc' = "read_err"
                /\ UNCHANGED <<trace_states, lagrange_kernel_trace_states, evaluations,
                               wire>>
    /\ last_call' = Call("read_from", Len(wire))
    /\ arg_trace' = NoTraceStates
    /\ arg_evals' = <<>>
    /\ returned' = <<>>
    /\ UNCHANGED <<parse_args, parsed>>
    /\ UNCHANGED <<vervars, polvars, algvars, frmvars, bldvars, vdfvars>>

----------------------------------------------------------------------------
(* The frame codec on its own: a fresh frame, written and then parsed *)

\* arguments of set_trace_states: rows of equal width (OodFrameTraceStates::new
\* asserts it), main width within the row, Lagrange frame absent or non-empty
TraceStatesArgs ==
    {OodFrameTraceStates(c, n, m, lk) :
        c \in SeqsUpTo(Elems, MaxWidth), n \in SeqsUpTo(Elems, MaxWidth),
        m \in 0..MaxWidth,
        lk \in {None} \cup {Some(v) : v \in SeqsUpTo(Elems, MaxLagrange) \ {<<>>}}}

ValidTraceStatesArgs ==
    {ts \in TraceStatesArgs :
        /\ Len(ts.current_row) = Len(ts.next_row)
        /\ ts.main_trace_width <= Len(ts.current_row)
        /\ (Len(ts.current_row) > 0 => ts.main_trace_width > 0)}

OodIdle ==
    /\ trace_states = <<>>
    /\ lagrange_kernel_trace_states = <<>>
    /\ evaluations = <<>>
    /\ arg_trace = NoTraceStates
    /\ arg_evals = <<>>
    /\ returned = <<>>
    /\ parse_args = <<0, 0, 0>>
    /\ parsed = NoParse
    /\ last_call = NoCall

\* no byte stream at hand
NoWire == wire = <<>>

\* OodFrame::default()
InitOod ==
    /\ OodIdle
    /\ NoWire
    /\ ood_pc = "live"

NextOod ==
    \/ \E ts \in ValidTraceStatesArgs : SetTraceStates(ts)
    \/ \E evals \in SeqsUpTo(Elems, MaxEvals) : SetConstraintEvaluations(evals)
    \/ \E m \in 0..MaxWidth, a \in 0..MaxWidth, k \in 0..MaxEvals : Parse(m, a, k)

\* evaluations whose encoding fills 2^16 bytes or more
ManyEvaluations == [i \in 1..((U16Modulus + ElementBytes - 1) \div ElementBytes) |-> 1]

\* trace states for the wire form, which copies the regions byte for byte: no
\* columns, one column, one column with a Lagrange kernel frame
WireTraceStatesArgs ==
    {OodFrameTraceStates(<<>>, <<>>, 0, None),
     OodFrameTraceStates(<<1>>, <<258>>, 1, None),
     OodFrameTraceStates(<<258>>, <<1>>, 1, Some(<<258>>))}

\* a frame written, serialized and read back
NextWire ==
    \/ \E ts \in WireTraceStatesArgs : SetTraceStates(ts)
    \/ \E evals \in SeqsUpTo(Elems, MaxEvals) \cup {ManyEvaluations} :
           SetConstraintEvaluations(evals)
    \/ WriteInto
    \/ ReadFrom

\* Lagrange kernel frames up to the largest count one byte holds
LongLagrangeFrames == {[i \in 1..k |-> e] : k \in {1, U8Max - 1, U8Max}, e \in Elems}

LagrangeTraceStatesArgs ==
    {OodFrameTraceStates(r[1], r[2], Len(r[1]), lk) :
        r \in {<<<<>>, <<>>>>, <<<<1>>, <<258>>>>},
        lk \in {None} \cup {Some(v) : v \in LongLagrangeFrames}}

\* a frame with a long Lagrange kernel sequence, written and then parsed
NextLagrange ==
    \/ \E ts \in LagrangeTraceStatesArgs : SetTraceStates(ts)
    \/ \E evals \in SeqsUpTo(Elems, MaxEvals) : SetConstraintEvaluations(evals)
    \/ \E m \in 0..MaxWidth, a \in 0..MaxWidth, k \in 0..MaxEvals : Parse(m, a, k)

\* Frames read from bytes that no write_into produced: every frame-size byte up
\* to MaxFrameSizeByte, element sequences up to MaxSourceElems, with and
\* without a byte more than the elements take
MaxFrameSizeByte == 3
MaxSourceElems == 3

RegionBytes(prefixes, n) ==
    {pre \o WriteMany(e) \o t :
        pre \in prefixes, e \in SeqsUpTo({258}, n), t \in {<<>>, <<7>>}}

SourceFrames ==
    {WriteIntoBytes(ts, lk, ev) :
        ts \in {<<>>} \cup RegionBytes({<<fs>> : fs \in 0..MaxFrameSizeByte}, MaxSourceElems),
        lk \in {<<>>} \cup RegionBytes({<<n>> : n \in 0..(MaxLagrange + 1)}, MaxLagrange + 1),
        ev \in RegionBytes({<<>>}, MaxEvals + 1)}

\* sources that end before the frame does
ShortSources == {<<>>, <<1>>, <<5, 0, 2>>, <<1, 0, 2, 1>>, <<1, 0, 2, 1, 0, 0, 9, 0>>}

InitSource ==
    /\ OodIdle
    /\ wire \in SourceFrames \cup ShortSources
    /\ ood_pc = "source"

NextBytes ==
    \/ ReadFrom
    \/ \E m \in 0..MaxWidth, a \in 0..MaxWidth, k \in 0..MaxEvals : Parse(m, a, k)

----------------------------------------------------------------------------
(* verify and perform_verification *)

MaxSecurity == 1     \* largest security level of a proof or of a policy
MaxGrinding == 1     \* largest grinding factor
NumQueries == 3      \* options().num_queries()
LdeDomainSize == 2   \* air.lde_domain_size()

\* values an out-of-domain constraint evaluation can take
EvalValues == {0, 1}
\* the ProofOptions a proof or an allow-list can hold
ProofOptionsSet == {"options_a", "options_b"}

Ok == [tag |-> "Ok", a |-> 0, b |-> 0]
Err(tag) == [tag |-> tag, a |-> 0, b |-> 0]
Running == [tag |-> "running", a |-> 0, b |-> 0]
\* an error that carries the error of the module that failed
ErrWith(tag, err) == [tag |-> tag, a |-> err, b |-> 0]
\* the errors of the auxiliary trace verifier and of the FRI verifier
ModuleErrors == {1, 2}
\* what a call into such a module comes to: 0 for Ok, else its error
ModuleOutcomes == {0} \cup ModuleErrors
\* the run aborted (panic) instead of returning
Panic == [tag |-> "Panic", a |-> 0, b |-> 0]

\* AcceptableOptions
MinConjecturedSecurity(k) == [kind |-> "MinConjecturedSecurity", min |-> k, options |-> {}]
MinProvenSecurity(k) == [kind |-> "MinProvenSecurity", min |-> k, options |-> {}]
OptionSet(list) == [kind |-> "OptionSet", min |-> 0, options |-> list]

AcceptableOptionsSet ==
    {MinConjecturedSecurity(k) : k \in 0..MaxSecurity}
        \cup {MinProvenSecurity(k) : k \in 0..MaxSecurity}
        \cup {OptionSet(l) : l \in SUBSET ProofOptionsSet}

\* what validate reads of a StarkProof: its two security levels and its options
ProofParams ==
    [conjectured : 0..MaxSecurity, proven : 0..MaxSecurity, options : ProofOptionsSet]

\* validate with the two members of the error exchanged
ValidateSwapped(ao, p) ==
    CASE ao.kind = "MinConjecturedSecurity" ->
            IF p.conjectured < ao.min
            THEN [tag |-> "InsufficientConjecturedSecurity", a |-> p.conjectured, b |-> ao.min]
            ELSE Ok
      [] ao.kind = "MinProvenSecurity" ->
            IF p.proven < ao.min
            THEN [tag |-> "InsufficientProvenSecurity", a |-> p.proven, b |-> ao.min]
            ELSE Ok
      [] ao.kind = "OptionSet" ->
            IF ~(\E opt \in ao.options : opt = p.options)
            THEN Err("UnacceptableProofOptions")
            ELSE Ok

\* validate that asks every listed option, not any, to equal the proof's
ValidateAllListed(ao, p) ==
    CASE ao.kind = "MinConjecturedSecurity" ->
            IF p.conjectured < ao.min
            THEN [tag |-> "InsufficientConjecturedSecurity", a |-> ao.min, b |-> p.conjectured]
            ELSE Ok
      [] ao.kind = "MinProvenSecurity" ->
            IF p.proven < ao.min
            THEN [tag |-> "InsufficientProvenSecurity", a |-> ao.min, b |-> p.proven]
            ELSE Ok
      [] ao.kind = "OptionSet" ->
            IF ~(\A opt \in ao.options : opt = p.options)
            THEN Err("UnacceptableProofOptions")
            ELSE Ok

\* AcceptableOptions::validate
Validate(ao, p) ==
    CASE ao.kind = "MinConjecturedSecurity" ->
            IF p.conjectured < ao.min
            THEN [tag |-> "InsufficientConjecturedSecurity",
                  a |-> ao.min, b |-> p.conjectured]
            ELSE Ok
      [] ao.kind = "MinProvenSecurity" ->
            IF p.proven < ao.min
            THEN [tag |-> "InsufficientProvenSecurity",
                  a |-> ao.min, b |-> p.proven]
            ELSE Ok
      [] ao.kind = "OptionSet" ->
            IF ~(\E opt \in ao.options : opt = p.options)
            THEN Err("UnacceptableProofOptions")
            ELSE Ok

\* what validate returns over all policies and proofs
ValidateOutcomes ==
    {Validate(ao, p) : ao \in AcceptableOptionsSet, p \in ProofParams}

\* no call of validate made
PolicyIdle ==
    /\ acceptable_options = OptionSet({})
    /\ proof = [conjectured |-> 0, proven |-> 0, options |-> "options_a"]
    /\ validate_result = Running

\* a policy and a proof to validate
InitPolicy ==
    /\ acceptable_options \in AcceptableOptionsSet
    /\ proof \in ProofParams
    /\ validate_result = Running

\* acceptable_options.validate(&proof)
ValidateCall ==
    /\ validate_result = Running
    /\ validate_result' = Validate(acceptable_options, proof)
    /\ UNCHANGED <<acceptable_options, proof>>
    /\ UNCHANGED <<oodvars, vervars, algvars, frmvars, bldvars, vdfvars>>

\* one entry of the log: who did what, on what, with which query positions
Ev(k, op, arg, by) == [k |-> k, op |-> op, arg |-> arg, by |-> by, pos |-> <<>>]
EvPos(k, op, arg, by, pos) == [k |-> k, op |-> op, arg |-> arg, by |-> by, pos |-> pos]

\* the public coin's state: the operations made on it since RandCoin::new
CoinOps(l) == SelectSeq(l, LAMBDA e : e.k = "coin")

\* The proof, the AIR and the caller's arguments of one run. The two
\* out-of-domain values and the nonce's leading zeros are functions of the
\* proof and of the transcript, which the proof determines.
Envs ==
    [num_trace_commitments : 1..2,          \* channel.read_trace_commitments().len()
     has_aux_trace_verifier : BOOLEAN,      \* aux_trace_verifier is Some
     air_lagrange_kernel : BOOLEAN,         \* the AIR has a Lagrange kernel boundary constraint
     ood_lagrange_kernel : BOOLEAN,         \* the OOD frame holds a Lagrange kernel frame
     ood_evaluation_1 : EvalValues,         \* evaluate_constraints(...) at z
     ood_evaluation_2 : EvalValues,         \* the fold of the composition-column evaluations at z
     grinding_factor : 0..MaxGrinding,      \* air.options().grinding_factor()
     leading_zeros : 0..(MaxGrinding + 1)]  \* check_leading_zeros(pow_nonce)

\* an out-of-domain value not computed yet, and a computed one
NoValue == [some |-> FALSE, val |-> <<>>]
Value(v) == [some |-> TRUE, val |-> <<v>>]

\* The proof, the public inputs and the policy fix what every operation of the
\* coin and of the channel yields at a given point of the transcript: a value
\* once yielded at a point is the value at that point. A point is the position
\* in verify and the operations made so far.
Consistent(o) == \A e \in determined : e.at = <<pc, log>> => e.out = o
Determined(S) == {o \in S : Consistent(o)}
Determine(o) == determined \cup {[at |-> <<pc, log>>, out |-> o]}

\* the first call of verify, nothing done yet
FirstRun ==
    /\ run = 1
    /\ first = None
    /\ determined = {}

VerIdle ==
    /\ FirstRun
    /\ validated = Running
    /\ result = Running
    /\ log = <<>>
    /\ aux_trace_rand_elements = None
    /\ ood_constraint_evaluation_1 = NoValue
    /\ ood_constraint_evaluation_2 = NoValue
    /\ drawn_positions = <<>>
    /\ query_positions = <<>>

\* a call of verify
InitVerify ==
    /\ env \in Envs
    /\ pc = "validate"
    /\ VerIdle

Return(r) ==
    /\ result' = r
    /\ pc' = "done"

\* verify with the policy check moved after the construction of the AIR and the coin
VerifyValidateAfterSeed ==
    /\ pc = "validate"
    /\ \E v \in Determined(ValidateOutcomes) :
              /\ determined' = Determine(v)
              /\ validated' = v
              /\ log' = log \o <<Ev("air", "new", "trace_info+pub_inputs+options", "verify"),
                                 Ev("coin", "new", "context+pub_inputs", "verify"),
                                 Ev("policy", "validate", "proof", "verify")>>
              /\ IF v # Ok THEN Return(v)
                 ELSE pc' = "channel" /\ UNCHANGED result
    /\ UNCHANGED <<env, aux_trace_rand_elements, ood_constraint_evaluation_1,
                   ood_constraint_evaluation_2, drawn_positions, query_positions>>
    /\ UNCHANGED <<oodvars, polvars, algvars, frmvars, bldvars, vdfvars, run, first>>

\* lib.rs:105  acceptable_options.validate::<HashFn>(&proof)?
VerifyValidate ==
    /\ pc = "validate"
    /\ \E v \in Determined(ValidateOutcomes) :
              /\ determined' = Determine(v)
              /\ validated' = v
              /\ log' = Append(log, Ev("policy", "validate", "proof", "verify"))
              /\ IF v # Ok THEN Return(v)
                 ELSE pc' = "seed" /\ UNCHANGED result
    /\ UNCHANGED <<env, aux_trace_rand_elements, ood_constraint_evaluation_1,
                   ood_constraint_evaluation_2, drawn_positions, query_positions>>
    /\ UNCHANGED <<oodvars, polvars, algvars, frmvars, bldvars, vdfvars, run, first>>

\* the coin seeded with the public inputs ahead of the proof context
VerifySeedInputsFirst ==
    /\ pc = "seed"
    /\ log' = log \o <<Ev("air", "new", "trace_info+pub_inputs+options", "verify"),
                       Ev("coin", "new", "pub_inputs+context", "verify")>>
    /\ pc' = "channel"
    /\ UNCHANGED <<env, validated, result, aux_trace_rand_elements,
                   ood_constraint_evaluation_1, ood_constraint_evaluation_2,
                   drawn_positions, query_positions, determined>>
    /\ UNCHANGED <<oodvars, polvars, algvars, frmvars, bldvars, vdfvars, run, first>>

\* lib.rs:110-118  the coin's seed, AIR::new, RandCoin::new
VerifySeed ==
    /\ pc = "seed"
    /\ log' = log \o <<Ev("air", "new", "trace_info+pub_inputs+options", "verify"),
                       Ev("coin", "new", "context+pub_inputs", "verify")>>
    /\ pc' = "channel"
    /\ UNCHANGED <<env, validated, result, aux_trace_rand_elements,
                   ood_constraint_evaluation_1, ood_constraint_evaluation_2,
                   drawn_positions, query_positions, determined>>
    /\ UNCHANGED <<oodvars, polvars, algvars, frmvars, bldvars, vdfvars, run, first>>

\* lib.rs:119  VerifierChannel::new(&air, proof)?
VerifyChannel ==
    /\ pc = "channel"
    /\ log' = Append(log, Ev("channel", "new", "proof", "verify"))
    /\ \E ok \in Determined(BOOLEAN) :
          /\ determined' = Determine(ok)
          /\ IF ok THEN pc' = "trace_commitments" /\ UNCHANGED result
                   ELSE Return(Err("ProofDeserializationError"))
    /\ UNCHANGED <<env, validated, aux_trace_rand_elements,
                   ood_constraint_evaluation_1, ood_constraint_evaluation_2,
                   drawn_positions, query_positions>>
    /\ UNCHANGED <<oodvars, polvars, algvars, frmvars, bldvars, vdfvars, run, first>>

\* what a step of perform_verification leaves alone besides pc, result and log
KeepRun == UNCHANGED <<env, validated, ood_constraint_evaluation_1,
                        ood_constraint_evaluation_2, drawn_positions, query_positions>>

\* lib.rs:149-152  read the trace commitments, reseed with the main one
ReadTraceCommitments ==
    /\ pc = "trace_commitments"
    /\ log' = log \o <<Ev("channel", "read_trace_commitments", "", "verify"),
                       Ev("coin", "reseed", "main_trace_commitment", "verify")>>
    /\ pc' = "aux_segment"
    /\ UNCHANGED <<result, aux_trace_rand_elements, determined>>
    /\ KeepRun
    /\ UNCHANGED <<oodvars, polvars, algvars, frmvars, bldvars, vdfvars, run, first>>

\* lib.rs:155-163  with a second trace commitment the AIR draws the auxiliary
\* random elements and the coin is reseeded with the auxiliary commitment. The
\* elements go to a variable that line 165 shadows and nothing reads.
ProcessAuxSegment ==
    /\ pc = "aux_segment"
    /\ IF env.num_trace_commitments > 1
       THEN \E ok \in Determined(BOOLEAN) :
               /\ determined' = Determine(ok)
               /\ IF ok
                  THEN /\ log' = log \o <<Ev("coin", "draw", "aux_rand_elements", "air"),
                                          Ev("coin", "reseed", "aux_segment_commitment", "verify")>>
                       /\ pc' = "aux_verifier"
                       /\ UNCHANGED result
                  ELSE /\ log' = Append(log, Ev("coin", "draw", "aux_rand_elements", "air"))
                       /\ Return(Err("RandomCoinError"))
       ELSE /\ pc' = "aux_verifier"
            /\ UNCHANGED <<log, result, determined>>
    /\ UNCHANGED aux_trace_rand_elements
    /\ KeepRun
    /\ UNCHANGED <<oodvars, polvars, algvars, frmvars, bldvars, vdfvars, run, first>>

\* the auxiliary trace verifier's error reported as a failure of the coin
GenerateAuxRandElementsAsCoinError ==
    /\ pc = "aux_verifier"
    /\ IF env.has_aux_trace_verifier
       THEN \E err \in Determined(ModuleOutcomes) :
               /\ determined' = Determine(err)
               /\ log' = Append(log, Ev("coin", "draw", "aux_rand_elements", "aux_trace_verifier"))
               /\ IF err = 0
                  THEN /\ aux_trace_rand_elements' = Some(CoinOps(log))
                       /\ pc' = "composition_coefficients"
                       /\ UNCHANGED result
                  ELSE /\ Return(Err("RandomCoinError"))
                       /\ UNCHANGED aux_trace_rand_elements
       ELSE /\ aux_trace_rand_elements' = None
            /\ pc' = "composition_coefficients"
            /\ UNCHANGED <<log, result, determined>>
    /\ KeepRun
    /\ UNCHANGED <<oodvars, polvars, algvars, frmvars, bldvars, vdfvars, run, first>>

\* lib.rs:165-172  with an auxiliary trace verifier, it draws the auxiliary random
\* elements from the coin; aux_trace_rand_elements is its result, else None.
\* A drawn value is identified by the coin state it was drawn from.
GenerateAuxRandElements ==
    /\ pc = "aux_verifier"
    /\ IF env.has_aux_trace_verifier
       THEN \E err \in Determined(ModuleOutcomes) :
               /\ determined' = Determine(err)
               /\ log' = Append(log, Ev("coin", "draw", "aux_rand_elements", "aux_trace_verifier"))
               /\ IF err = 0
                  THEN /\ aux_trace_rand_elements' = Some(CoinOps(log))
                       /\ pc' = "composition_coefficients"
                       /\ UNCHANGED result
                  ELSE /\ Return(ErrWith("AuxTraceVerificationFailed", err))
                       /\ UNCHANGED aux_trace_rand_elements
       ELSE /\ aux_trace_rand_elements' = None
            /\ pc' = "composition_coefficients"
            /\ UNCHANGED <<log, result, determined>>
    /\ KeepRun
    /\ UNCHANGED <<oodvars, polvars, algvars, frmvars, bldvars, vdfvars, run, first>>

\* lib.rs:175-177  air.get_constraint_composition_coefficients(&mut public_coin)
DrawCompositionCoefficients ==
    /\ pc = "composition_coefficients"
    /\ log' = Append(log, Ev("coin", "draw", "constraint_composition_coefficients", "air"))
    /\ \E ok \in Determined(BOOLEAN) :
          /\ determined' = Determine(ok)
          /\ IF ok THEN pc' = "constraint_commitment" /\ UNCHANGED result
                   ELSE Return(Err("RandomCoinError"))
    /\ UNCHANGED aux_trace_rand_elements
    /\ KeepRun
    /\ UNCHANGED <<oodvars, polvars, algvars, frmvars, bldvars, vdfvars, run, first>>

\* lib.rs:185-187  read the constraint commitment, reseed, draw z
ReadConstraintCommitment ==
    /\ pc = "constraint_commitment"
    /\ log' = log \o <<Ev("channel", "read_constraint_commitment", "", "verify"),
                       Ev("coin", "reseed", "constraint_commitment", "verify"),
                       Ev("coin", "draw", "z", "verify")>>
    /\ \E ok \in Determined(BOOLEAN) :
          /\ determined' = Determine(ok)
          /\ IF ok THEN pc' = "ood_trace_frame" /\ UNCHANGED result
                   ELSE Return(Err("RandomCoinError"))
    /\ UNCHANGED aux_trace_rand_elements
    /\ KeepRun
    /\ UNCHANGED <<oodvars, polvars, algvars, frmvars, bldvars, vdfvars, run, first>>

\* evaluator.rs:106-107  b_constraints.lagrange_kernel_constraint().expect("TODO"):
\* a Lagrange kernel frame with no Lagrange kernel boundary constraint aborts
EvaluateConstraintsAborts(lagrange_kernel_column_frame, has_lagrange_kernel_constraint) ==
    lagrange_kernel_column_frame /\ ~has_lagrange_kernel_constraint

\* lib.rs:196-208  read the OOD trace frame and evaluate the constraints at z
EvaluateOodConstraints ==
    /\ pc = "ood_trace_frame"
    /\ log' = Append(log, Ev("channel", "read_ood_trace_frame", "", "verify"))
    /\ IF EvaluateConstraintsAborts(env.ood_lagrange_kernel, env.air_lagrange_kernel)
       THEN /\ Return(Panic)
            /\ UNCHANGED ood_constraint_evaluation_1
       ELSE /\ ood_constraint_evaluation_1' = Value(env.ood_evaluation_1)
            /\ pc' = "ood_trace_hash"
            /\ UNCHANGED result
    /\ UNCHANGED <<env, validated, aux_trace_rand_elements, ood_constraint_evaluation_2,
                   drawn_positions, query_positions, determined>>
    /\ UNCHANGED <<oodvars, polvars, algvars, frmvars, bldvars, vdfvars, run, first>>

\* lib.rs:209  public_coin.reseed(ood_trace_frame.hash::<H>()), where
\* ood_frame.rs:290-294 OodFrameTraceStates::hash is todo!(): the call aborts
\* before the coin is reseeded
ReseedOodTraceFrame ==
    /\ pc = "ood_trace_hash"
    /\ Return(Panic)
    /\ UNCHANGED <<log, aux_trace_rand_elements, determined>>
    /\ KeepRun
    /\ UNCHANGED <<oodvars, polvars, algvars, frmvars, bldvars, vdfvars, run, first>>

----------------------------------------------------------------------------
(* perform_verification past line 209, with OodFrameTraceStates::hash returning
   a digest of the frame *)

\* lib.rs:209  the reseed with the hash of the OOD trace frame, the hash being
\* the one digest of the whole frame that the protocol prescribes
ReseedOodTraceFrameHashed ==
    /\ pc = "ood_trace_hash"
    /\ log' = Append(log, Ev("coin", "reseed", "ood_trace_frame", "verify"))
    /\ pc' = "ood_constraint_evaluations"
    /\ UNCHANGED <<result, aux_trace_rand_elements, determined>>
    /\ KeepRun
    /\ UNCHANGED <<oodvars, polvars, algvars, frmvars, bldvars, vdfvars, run, first>>

\* lib.rs:218-226  read the composition-column evaluations, fold them at z, reseed
ReadOodConstraintEvaluations ==
    /\ pc = "ood_constraint_evaluations"
    /\ log' = log \o <<Ev("channel", "read_ood_constraint_evaluations", "", "verify"),
                       Ev("coin", "reseed", "ood_constraint_evaluations", "verify")>>
    /\ ood_constraint_evaluation_2' = Value(env.ood_evaluation_2)
    /\ pc' = "ood_consistency"
    /\ UNCHANGED <<env, validated, result, aux_trace_rand_elements,
                   ood_constraint_evaluation_1, drawn_positions, query_positions,
                   determined>>
    /\ UNCHANGED <<oodvars, polvars, algvars, frmvars, bldvars, vdfvars, run, first>>

\* lib.rs:229-231  the two values must be the same
CheckOodConsistency ==
    /\ pc = "ood_consistency"
    /\ IF ood_constraint_evaluation_1 # ood_constraint_evaluation_2
       THEN Return(Err("InconsistentOodConstraintEvaluations"))
       ELSE pc' = "deep_coefficients" /\ UNCHANGED result
    /\ UNCHANGED <<log, aux_trace_rand_elements, determined>>
    /\ KeepRun
    /\ UNCHANGED <<oodvars, polvars, algvars, frmvars, bldvars, vdfvars, run, first>>

\* the draw with its error kept for later instead of returned
DrawDeepCoefficientsDeferred ==
    /\ pc = "deep_coefficients"
    /\ log' = Append(log, Ev("coin", "draw", "deep_composition_coefficients", "air"))
    /\ \E ok \in Determined(BOOLEAN) :
          /\ determined' = Determine(ok)
          /\ result' = IF ok THEN result ELSE Err("RandomCoinError")
          /\ pc' = "fri_commit"
    /\ UNCHANGED aux_trace_rand_elements
    /\ KeepRun
    /\ UNCHANGED <<oodvars, polvars, algvars, frmvars, bldvars, vdfvars, run, first>>

\* lib.rs:238-240  air.get_deep_composition_coefficients(&mut public_coin)
DrawDeepCoefficients ==
    /\ pc = "deep_coefficients"
    /\ log' = Append(log, Ev("coin", "draw", "deep_composition_coefficients", "air"))
    /\ \E ok \in Determined(BOOLEAN) :
          /\ determined' = Determine(ok)
          /\ IF ok THEN pc' = "fri_commit" /\ UNCHANGED result
                   ELSE Return(Err("RandomCoinError"))
    /\ UNCHANGED aux_trace_rand_elements
    /\ KeepRun
    /\ UNCHANGED <<oodvars, polvars, algvars, frmvars, bldvars, vdfvars, run, first>>

\* lib.rs:247-253  FriVerifier::new reads the layer commitments and reseeds and
\* draws on the coin
FriCommitPhase ==
    /\ pc = "fri_commit"
    /\ log' = log \o <<Ev("channel", "read_fri_layer_commitments", "", "fri"),
                       Ev("coin", "fri_commit", "layer_commitments", "fri")>>
    /\ \E err \in Determined(ModuleOutcomes) :
          /\ determined' = Determine(err)
          /\ IF err = 0 THEN pc' = "proof_of_work" /\ UNCHANGED result
                        ELSE Return(ErrWith("FriVerificationFailed", err))
    /\ UNCHANGED aux_trace_rand_elements
    /\ KeepRun
    /\ UNCHANGED <<oodvars, polvars, algvars, frmvars, bldvars, vdfvars, run, first>>

\* lib.rs:261  check_leading_zeros(pow_nonce) < grinding_factor
GrindingNotMet(leading_zeros, grinding_factor) == leading_zeros < grinding_factor

\* lib.rs:258-263  read the nonce, check the proof of work
CheckProofOfWork ==
    /\ pc = "proof_of_work"
    /\ log' = log \o <<Ev("channel", "read_pow_nonce", "", "verify"),
                       Ev("coin", "check_leading_zeros", "pow_nonce", "verify")>>
    /\ IF GrindingNotMet(env.leading_zeros, env.grinding_factor)
       THEN Return(Err("QuerySeedProofOfWorkVerificationFailed"))
       ELSE pc' = "query_positions" /\ UNCHANGED result
    /\ UNCHANGED <<aux_trace_rand_elements, determined>>
    /\ KeepRun
    /\ UNCHANGED <<oodvars, polvars, algvars, frmvars, bldvars, vdfvars, run, first>>

----------------------------------------------------------------------------
(* The query phase of perform_verification *)

\* Vec::sort_unstable: ascending order (insertion into a sorted prefix)
RECURSIVE InsertSorted(_, _)
InsertSorted(x, s) ==
    IF s = <<>> THEN <<x>>
    ELSE IF x <= Head(s) THEN <<x>> \o s
    ELSE <<Head(s)>> \o InsertSorted(x, Tail(s))

RECURSIVE SortUnstable(_)
SortUnstable(s) ==
    IF s = <<>> THEN <<>> ELSE InsertSorted(Head(s), SortUnstable(Tail(s)))

\* a dedup that keeps everything
DedupKeepsAll(s) == s

\* Vec::dedup: of each run of equal neighbours only one element is kept
RECURSIVE Dedup(_)
Dedup(s) ==
    IF Len(s) <= 1 THEN s
    ELSE IF s[1] = s[2] THEN Dedup(Tail(s))
    ELSE <<s[1]>> \o Dedup(Tail(s))

KeepQueries == UNCHANGED <<env, validated, aux_trace_rand_elements,
                           ood_constraint_evaluation_1, ood_constraint_evaluation_2,
                           drawn_positions, query_positions>>

\* query positions taken from a source outside the transcript
DrawQueryPositionsUnseeded ==
    /\ pc = "query_positions"
    /\ log' = Append(log, Ev("coin", "draw_integers", "query_positions", "verify"))
    /\ \E drawn \in SeqsOfLen(0..(LdeDomainSize - 1), NumQueries) :
          /\ drawn_positions' = drawn
          /\ query_positions' = Dedup(SortUnstable(drawn))
          /\ pc' = "queried_trace_states"
          /\ UNCHANGED <<result, determined>>
    /\ UNCHANGED <<env, validated, aux_trace_rand_elements,
                   ood_constraint_evaluation_1, ood_constraint_evaluation_2>>
    /\ UNCHANGED <<oodvars, polvars, algvars, frmvars, bldvars, vdfvars, run, first>>

\* lib.rs:269-276  draw_integers(num_queries, lde_domain_size, pow_nonce), then
\* sort_unstable and dedup
DrawQueryPositions ==
    /\ pc = "query_positions"
    /\ log' = Append(log, Ev("coin", "draw_integers", "query_positions", "verify"))
    /\ \E drawn \in Determined({<<>>} \cup SeqsOfLen(0..(LdeDomainSize - 1), NumQueries)) :
          /\ determined' = Determine(drawn)
          /\ IF drawn # <<>>
             THEN /\ drawn_positions' = drawn
                  /\ query_positions' = Dedup(SortUnstable(drawn))
                  /\ pc' = "queried_trace_states"
                  /\ UNCHANGED result
             ELSE /\ Return(Err("RandomCoinError"))
                  /\ UNCHANGED <<drawn_positions, query_positions>>
    /\ UNCHANGED <<env, validated, aux_trace_rand_elements,
                   ood_constraint_evaluation_1, ood_constraint_evaluation_2>>
    /\ UNCHANGED <<oodvars, polvars, algvars, frmvars, bldvars, vdfvars, run, first>>

\* lib.rs:280-281  channel.read_queried_trace_states(&query_positions)?
ReadQueriedTraceStates ==
    /\ pc = "queried_trace_states"
    /\ log' = Append(log, EvPos("channel", "read_queried_trace_states", "", "verify",
                                query_positions))
    /\ \E ok \in Determined(BOOLEAN) :
          /\ determined' = Determine(ok)
          /\ IF ok THEN pc' = "queried_constraint_evaluations" /\ UNCHANGED result
                   ELSE Return(Err("TraceQueryDoesNotMatchCommitment"))
    /\ KeepQueries
    /\ UNCHANGED <<oodvars, polvars, algvars, frmvars, bldvars, vdfvars, run, first>>

\* lib.rs:282  channel.read_constraint_evaluations(&query_positions)?
ReadQueriedConstraintEvaluations ==
    /\ pc = "queried_constraint_evaluations"
    /\ log' = Append(log, EvPos("channel", "read_constraint_evaluations", "", "verify",
                                query_positions))
    /\ \E ok \in Determined(BOOLEAN) :
          /\ determined' = Determine(ok)
          /\ IF ok THEN pc' = "deep_composition" /\ UNCHANGED result
                   ELSE Return(Err("ConstraintQueryDoesNotMatchCommitment"))
    /\ KeepQueries
    /\ UNCHANGED <<oodvars, polvars, algvars, frmvars, bldvars, vdfvars, run, first>>

\* lib.rs:286-295  DeepComposer::new(&air, &query_positions, z, deep_coefficients)
\* and the three composition calls
ComposeDeepEvaluations ==
    /\ pc = "deep_composition"
    /\ log' = Append(log, EvPos("composer", "DeepComposer::new", "", "verify",
                                query_positions))
    /\ pc' = "fri_verify"
    /\ UNCHANGED <<result, determined>>
    /\ KeepQueries
    /\ UNCHANGED <<oodvars, polvars, algvars, frmvars, bldvars, vdfvars, run, first>>

\* the low-degree test made and its result dropped
VerifyLowDegreeIgnored ==
    /\ pc = "fri_verify"
    /\ log' = Append(log, EvPos("fri", "FriVerifier::verify", "", "fri", query_positions))
    /\ \E err \in Determined(ModuleOutcomes) :
          /\ determined' = Determine(err)
          /\ Return(Ok)
    /\ KeepQueries
    /\ UNCHANGED <<oodvars, polvars, algvars, frmvars, bldvars, vdfvars, run, first>>

\* lib.rs:300-302  fri_verifier.verify(&mut channel, &deep_evaluations, &query_positions)
VerifyLowDegree ==
    /\ pc = "fri_verify"
    /\ log' = Append(log, EvPos("fri", "FriVerifier::verify", "", "fri", query_positions))
    /\ \E err \in Determined(ModuleOutcomes) :
          /\ determined' = Determine(err)
          /\ Return(IF err = 0 THEN Ok ELSE ErrWith("FriVerificationFailed", err))
    /\ KeepQueries
    /\ UNCHANGED <<oodvars, polvars, algvars, frmvars, bldvars, vdfvars, run, first>>

\* verify called again with the same proof, public inputs and policy
VerifyAgain ==
    /\ pc = "done"
    /\ run = 1
    /\ run' = 2
    /\ first' = Some([log |-> log, result |-> result, query_positions |-> query_positions])
    /\ pc' = "validate"
    /\ validated' = Running
    /\ result' = Running
    /\ log' = <<>>
    /\ aux_trace_rand_elements' = None
    /\ ood_constraint_evaluation_1' = NoValue
    /\ ood_constraint_evaluation_2' = NoValue
    /\ drawn_positions' = <<>>
    /\ query_positions' = <<>>
    /\ UNCHANGED <<env, determined>>
    /\ UNCHANGED <<oodvars, polvars, algvars, frmvars, bldvars, vdfvars>>

NextVerify ==
    \/ VerifyValidate
    \/ VerifySeed
    \/ VerifyChannel
    \/ ReadTraceCommitments
    \/ ProcessAuxSegment
    \/ GenerateAuxRandElements
    \/ DrawCompositionCoefficients
    \/ ReadConstraintCommitment
    \/ EvaluateOodConstraints
    \/ ReseedOodTraceFrame

----------------------------------------------------------------------------
(* Field and integer arithmetic of the evaluator and of the fold *)

\* the field: the integers modulo a prime
Modulus == 7

\* a usize as three 16-bit limbs, least significant first
LimbBase == 2 ^ 16
Usize(l0, l1, l2) == <<l0, l1, l2>>

\* `as u32`: the low 32 bits
AsU32(n) == <<n[1], n[2], 0>>

\* i * n in usize, for a small i
MulSmall(i, n) ==
    LET p0 == i * n[1]
        p1 == i * n[2] + (p0 \div LimbBase)
        p2 == i * n[3] + (p1 \div LimbBase)
    IN  <<p0 % LimbBase, p1 % LimbBase, p2 % LimbBase>>

\* n / d in usize, for a small d
DivSmall(n, d) ==
    LET c2 == n[3]
        c1 == (c2 % d) * LimbBase + n[2]
        c0 == (c1 % d) * LimbBase + n[1]
    IN  <<c0 \div d, c1 \div d, c2 \div d>>

\* b^e for an exponent of one limb
RECURSIVE ExpSmall(_, _)
ExpSmall(b, e) ==
    IF e = 0 THEN 1
    ELSE IF e % 2 = 1 THEN (b * ExpSmall(b, e - 1)) % Modulus
    ELSE ExpSmall((b * b) % Modulus, e \div 2)

\* FieldElement::exp_vartime: b^n
ExpVartime(b, n) ==
    LET b16 == ExpSmall(b, LimbBase)
        b32 == ExpSmall(b16, LimbBase)
    IN  (ExpSmall(b, n[1]) * ExpSmall(b16, n[2]) * ExpSmall(b32, n[3])) % Modulus

\* polynom::eval: the polynomial with coefficients poly, lowest degree first, at x
RECURSIVE PolyEval(_, _)
PolyEval(poly, x) ==
    IF poly = <<>> THEN 0 ELSE (Head(poly) + x * PolyEval(Tail(poly), x)) % Modulus

----------------------------------------------------------------------------
(* evaluate_constraints *)

MaxAuxConstraints == 1   \* most auxiliary (non-Lagrange) transition constraints
MaxGroups == 1           \* most boundary constraint groups of a segment

\* a summand of the result: what it is and which group or coordinate it is of
Term(name, n) == <<name, n>>

NotEvaluated == [status |-> "none", terms |-> <<>>, periodic_values |-> <<>>,
                 aux_transition_called |-> FALSE]
EvaluatePanic == [NotEvaluated EXCEPT !.status = "Panic"]

\* evaluator.rs:29-37  the periodic columns at x
PeriodicValues(a, x) ==
    [k \in DOMAIN a.periodic_column_polys |->
        LET poly == a.periodic_column_polys[k]
            num_cycles == DivSmall(a.trace_length, Len(poly))
        IN  PolyEval(poly, ExpVartime(x, AsU32(num_cycles)))]

\* evaluate_constraints with the auxiliary boundary groups added whether or not
\* there is an auxiliary frame
EvaluateConstraintsAuxAlways(a, aux_trace_frame, lagrange_kernel_column_frame, x) ==
    IF EvaluateConstraintsAborts(lagrange_kernel_column_frame.some, a.lagrange_kernel_constraint)
    THEN EvaluatePanic
    ELSE [status |-> "Ok",
          terms |-> <<Term("transition", 0)>>
                    \o (IF lagrange_kernel_column_frame.some
                        THEN <<Term("lagrange_kernel_transition", 0)>> ELSE <<>>)
                    \o [g \in 1..a.main_boundary_groups |-> Term("main_boundary", g)]
                    \o [g \in 1..a.aux_boundary_groups |-> Term("aux_boundary", g)]
                    \o (IF lagrange_kernel_column_frame.some
                        THEN <<Term("lagrange_kernel_boundary",
                                    lagrange_kernel_column_frame.val[1])>>
                        ELSE <<>>),
          periodic_values |-> PeriodicValues(a, x),
          aux_transition_called |-> aux_trace_frame /\ a.num_aux_constraints > 0]

\* evaluate_constraints (evaluator.rs:14-119): the summands of `result` in the
\* order they are added, the periodic values handed to the transition
\* evaluators, and whether air.evaluate_aux_transition was called
EvaluateConstraints(a, aux_trace_frame, lagrange_kernel_column_frame, x) ==
    IF EvaluateConstraintsAborts(lagrange_kernel_column_frame.some, a.lagrange_kernel_constraint)
    THEN EvaluatePanic
    ELSE [status |-> "Ok",
          terms |-> <<Term("transition", 0)>>
                    \o (IF lagrange_kernel_column_frame.some
                        THEN <<Term("lagrange_kernel_transition", 0)>> ELSE <<>>)
                    \o [g \in 1..a.main_boundary_groups |-> Term("main_boundary", g)]
                    \o (IF aux_trace_frame
                        THEN [g \in 1..a.aux_boundary_groups |-> Term("aux_boundary", g)]
                        ELSE <<>>)
                    \o (IF lagrange_kernel_column_frame.some
                        THEN <<Term("lagrange_kernel_boundary",
                                    lagrange_kernel_column_frame.val[1])>>
                        ELSE <<>>),
          periodic_values |-> PeriodicValues(a, x),
          aux_transition_called |-> aux_trace_frame /\ a.num_aux_constraints > 0]

\* trace lengths: 8 and 2^33
TraceLengths == {Usize(8, 0, 0), Usize(0, 0, 2)}

\* periodic columns: none, one of period 2, one of period 2 and one of period 4
PeriodicColumnPolys == {<<>>, << <<2, 3>> >>, << <<2, 3>>, <<1, 0, 4, 5>> >>}

Airs ==
    [trace_length : TraceLengths,                \* air.trace_length()
     periodic_column_polys : PeriodicColumnPolys, \* air.get_periodic_column_polys()
     num_aux_constraints : 0..MaxAuxConstraints, \* t_constraints.num_aux_constraints()
     lagrange_kernel_constraint : BOOLEAN,       \* b_constraints.lagrange_kernel_constraint() is Some
     main_boundary_groups : 0..MaxGroups,        \* b_constraints.main_constraints().len()
     aux_boundary_groups : 0..MaxGroups]         \* b_constraints.aux_constraints().len()

EvaluateArgs ==
    [aux_trace_frame : BOOLEAN,                              \* aux_trace_frame is Some
     lagrange_kernel_column_frame : {None, Some(<<1>>), Some(<<2, 3>>)},
     x : {3, 5}]

NoAir == [trace_length |-> Usize(8, 0, 0), periodic_column_polys |-> <<>>,
          num_aux_constraints |-> 0, lagrange_kernel_constraint |-> FALSE,
          main_boundary_groups |-> 0, aux_boundary_groups |-> 0]
NoEvaluateArgs == [aux_trace_frame |-> FALSE, lagrange_kernel_column_frame |-> None, x |-> 3]

\* a call of evaluate_constraints
EvaluateConstraintsCall ==
    /\ evaluated = NotEvaluated
    /\ evaluated' = EvaluateConstraints(air, evaluate_args.aux_trace_frame,
                                        evaluate_args.lagrange_kernel_column_frame,
                                        evaluate_args.x)
    /\ UNCHANGED <<air, evaluate_args, fold_args, folded>>
    /\ UNCHANGED <<oodvars, vervars, polvars, frmvars, bldvars, vdfvars>>

----------------------------------------------------------------------------
(* The fold of the composition-column evaluations *)

MaxColumns == 3          \* most constraint composition columns

\* lib.rs:219-225  the fold, from column i on
RECURSIVE FoldFrom(_, _, _, _)
FoldFrom(i, z, trace_length, values) ==
    IF i >= Len(values) THEN 0
    ELSE (ExpVartime(z, AsU32(MulSmall(i, trace_length))) * values[i + 1]
             + FoldFrom(i + 1, z, trace_length, values)) % Modulus

FoldEvaluations(z, trace_length, values) == FoldFrom(0, z, trace_length, values)

\* trace lengths of the fold: 8 and 2^31
FoldArgs ==
    [z : {3, 5},
     trace_length : {Usize(8, 0, 0), Usize(0, 32768, 0)},
     values : UNION {SeqsOfLen({1, 2}, m) : m \in 1..MaxColumns}]

NoFoldArgs == [z |-> 3, trace_length |-> Usize(8, 0, 0), values |-> <<>>]

FoldCall ==
    /\ folded = None
    /\ folded' = Some(FoldEvaluations(fold_args.z, fold_args.trace_length, fold_args.values))
    /\ UNCHANGED <<air, evaluate_args, evaluated, fold_args>>
    /\ UNCHANGED <<oodvars, vervars, polvars, frmvars, bldvars, vdfvars>>

\* no call of evaluate_constraints and no fold at hand
AlgebraIdle ==
    /\ air = NoAir
    /\ evaluate_args = NoEvaluateArgs
    /\ evaluated = NotEvaluated
    /\ fold_args = NoFoldArgs
    /\ folded = None

----------------------------------------------------------------------------
(* OodFrameTraceStates: main_frame, aux_frame *)

MaxRowWidth == 2         \* widest row the frame accessors are called on

NoFrame == [status |-> "none", frame |-> None]

\* EvaluationFrame::from_rows
EvaluationFrame(current, next) == [current |-> current, next |-> next]

\* an accessor that reports an auxiliary frame for every row
HasAuxFrameAlways(ts) == TRUE

\* OodFrameTraceStates::has_aux_frame
HasAuxFrame(ts) == Len(ts.current_row) > ts.main_trace_width

\* OodFrameTraceStates::main_frame: the slices [0..main_trace_width] abort
\* when a row is shorter than main_trace_width
MainFrame(ts) ==
    IF ts.main_trace_width > Len(ts.current_row) \/ ts.main_trace_width > Len(ts.next_row)
    THEN [status |-> "Panic", frame |-> None]
    ELSE [status |-> "Ok",
          frame |-> Some(EvaluationFrame(SubSeq(ts.current_row, 1, ts.main_trace_width),
                                         SubSeq(ts.next_row, 1, ts.main_trace_width)))]

\* OodFrameTraceStates::aux_frame
AuxFrame(ts) ==
    IF HasAuxFrame(ts)
    THEN [status |-> "Ok",
          frame |-> Some(EvaluationFrame(
                        SubSeq(ts.current_row, ts.main_trace_width + 1, Len(ts.current_row)),
                        SubSeq(ts.next_row, ts.main_trace_width + 1, Len(ts.next_row))))]
    ELSE [status |-> "Ok", frame |-> None]

\* trace states as OodFrameTraceStates::new accepts them: rows of equal
\* length, any main_trace_width
FrameStates ==
    {ts \in {OodFrameTraceStates(c, n, m, None) :
                c \in SeqsUpTo(Elems, MaxRowWidth), n \in SeqsUpTo(Elems, MaxRowWidth),
                m \in 0..MaxRowWidth} :
        Len(ts.current_row) = Len(ts.next_row)}

MainFrameCall ==
    /\ main_frame.status # "Panic"
    /\ main_frame' = MainFrame(states)
    /\ UNCHANGED <<states, aux_frame>>
    /\ UNCHANGED <<oodvars, vervars, polvars, algvars, bldvars, vdfvars>>

AuxFrameCall ==
    /\ main_frame.status # "Panic"
    /\ aux_frame' = AuxFrame(states)
    /\ UNCHANGED <<states, main_frame>>
    /\ UNCHANGED <<oodvars, vervars, polvars, algvars, bldvars, vdfvars>>

\* no trace states at hand
FramesIdle ==
    /\ states = NoTraceStates
    /\ main_frame = NoFrame
    /\ aux_frame = NoFrame

----------------------------------------------------------------------------
(* AuxTraceBuilder *)

MaxAuxWidth == 4         \* widest auxiliary segment asked of a builder

CYCLE_LENGTH == 16
NUM_HASH_ROUNDS == 14

NotBuilt == [status |-> "none", aux_trace |-> <<>>, aux_rand_eles |-> <<>>,
             aux_proof |-> None]

\* RandomCoin::draw: the element the coin gives at its position; the draw is
\* recorded and the coin moves on
Draw(t) ==
    LET value == (3 * t.pos + 2) % Modulus
    IN  [value |-> value,
         transcript |-> [pos |-> t.pos + 1, ops |-> Append(t.ops, <<"draw", value>>)]]

\* the draw loop with the elements pushed to the front
RECURSIVE DrawManyReversed(_, _)
DrawManyReversed(t, n) ==
    IF n = 0 THEN [transcript |-> t, rand_elements |-> <<>>]
    ELSE LET rest == DrawManyReversed(Draw(t).transcript, n - 1)
         IN  [transcript |-> rest.transcript,
              rand_elements |-> rest.rand_elements \o <<Draw(t).value>>]

\* the draw loop of a builder: n draws, each pushed to rand_elements
RECURSIVE DrawMany(_, _)
DrawMany(t, n) ==
    IF n = 0 THEN [transcript |-> t, rand_elements |-> <<>>]
    ELSE LET rest == DrawMany(Draw(t).transcript, n - 1)
         IN  [transcript |-> rest.transcript,
              rand_elements |-> <<Draw(t).value>> \o rest.rand_elements]

\* ColMatrix::num_rows
NumRows(m) == IF m = <<>> THEN 0 ELSE Len(m[1])

\* RescueRapsAuxTraceBuilder::build_aux_trace: the indexing of rand_elements,
\* current_row and aux_columns aborts when there are fewer than 3 auxiliary
\* columns, fewer than 6 main columns or no row. Rows and columns of the main
\* trace are counted from 0, as in the code.
RescueRapsBuildAuxTrace(main, aux_segment_width, t) ==
    LET drawn == DrawMany(t, aux_segment_width)
        rand_elements == [i \in 0..(aux_segment_width - 1) |-> drawn.rand_elements[i + 1]]
        rows == NumRows(main)
        ReadRow(i) == [c \in 0..(Len(main) - 1) |-> main[c + 1][i + 1]]
        Sub(a, b) == (a + Modulus - b) % Modulus
        Inv(a) == ExpSmall(a, Modulus - 2)
        current_row == ReadRow(0)
        Copied(i, c) ==
            IF i = 0
            THEN (rand_elements[0] * current_row[c] + rand_elements[1] * current_row[c + 1])
                     % Modulus
            ELSE IF (i % CYCLE_LENGTH) = NUM_HASH_ROUNDS
            THEN (rand_elements[0] * Sub(ReadRow(i + 1)[c], ReadRow(i)[c])
                  + rand_elements[1] * Sub(ReadRow(i + 1)[c + 1], ReadRow(i)[c + 1]))
                     % Modulus
            ELSE 0
        aux_columns_0 == [i \in 0..(rows - 1) |-> Copied(i, 0)]
        aux_columns_1 == [i \in 0..(rows - 1) |-> Copied(i, 4)]
        aux_columns_2[i \in 0..(rows - 1)] ==
            IF i = 0 THEN 1
            ELSE LET num == (aux_columns_0[i - 1] + rand_elements[2]) % Modulus
                     denom == (aux_columns_1[i - 1] + rand_elements[2]) % Modulus
                 IN  (aux_columns_2[i - 1] * num * Inv(denom)) % Modulus
    IN  [transcript |-> drawn.transcript,
         built |->
            IF aux_segment_width < 3 \/ Len(main) < 6 \/ rows = 0
            THEN [NotBuilt EXCEPT !.status = "Panic"]
            ELSE [status |-> "Ok",
                  aux_trace |->
                      [col \in 1..aux_segment_width |->
                          [row \in 1..rows |->
                              IF col = 1 THEN aux_columns_0[row - 1]
                              ELSE IF col = 2 THEN aux_columns_1[row - 1]
                              ELSE IF col = 3 THEN aux_columns_2[row - 1]
                              ELSE 0]],
                  aux_rand_eles |-> drawn.rand_elements,
                  aux_proof |-> None]]

\* usize::ilog2
RECURSIVE ILog2(_)
ILog2(n) == IF n < 2 THEN 0 ELSE 1 + ILog2(n \div 2)

\* LagrangeComplexProver::build_aux_trace
LagrangeBuildAuxTrace(main, aux_trace_width, t) ==
    LET rows == NumRows(main)
        log_trace_len == ILog2(rows)
        drawn == DrawMany(t, log_trace_len)
        r == drawn.rand_elements
        RowValue(row_idx) ==
            LET value[bits \in 0..Len(r)] ==
                    IF bits = 0 THEN 1
                    ELSE IF (row_idx \div (2 ^ (bits - 1))) % 2 = 0
                    THEN (value[bits - 1] * ((1 + Modulus - r[bits]) % Modulus)) % Modulus
                    ELSE (value[bits - 1] * r[bits]) % Modulus
            IN  value[Len(r)]
        lagrange_col == [row \in 1..rows |-> RowValue(row - 1)]
        rand_summed ==
            LET acc[k \in 0..Len(r)] == IF k = 0 THEN 0 ELSE (acc[k - 1] + r[k]) % Modulus
            IN  acc[Len(r)]
        column == [row \in 1..rows |-> (rand_summed * main[1][row]) % Modulus]
    IN  [transcript |-> drawn.transcript,
         built |-> [status |-> "Ok",
                    aux_trace |-> <<lagrange_col>>
                                      \o [k \in 1..(aux_trace_width - 1) |-> column],
                    aux_rand_eles |-> r,
                    aux_proof |-> None]]

\* RapTraceTable: 8 columns; LagrangeComplexTrace: one column of the row indices
MainTraces(kind) ==
    IF kind = "rescue_raps"
    THEN {[c \in 1..8 |-> [i \in 1..rows |-> (k + c * c * i) % Modulus]] :
              rows \in {8, 16}, k \in {0, 1}}
    ELSE {<<[i \in 1..rows |-> (i - 1) % Modulus]>> : rows \in {2, 4, 8}}

\* the builders and the width they are asked for
Builders ==
    {[kind |-> "rescue_raps", width |-> w] : w \in 2..MaxAuxWidth}
        \cup {[kind |-> "lagrange", width |-> w] : w \in 1..MaxAuxWidth}

RescueRapsBuildAuxTraceCall ==
    /\ builder.kind = "rescue_raps"
    /\ built = NotBuilt
    /\ LET call == RescueRapsBuildAuxTrace(main_trace, builder.width, transcript)
       IN  /\ transcript' = call.transcript
           /\ built' = call.built
    /\ UNCHANGED <<builder, main_trace>>
    /\ UNCHANGED <<oodvars, vervars, polvars, algvars, frmvars, vdfvars>>

LagrangeBuildAuxTraceCall ==
    /\ builder.kind = "lagrange"
    /\ built = NotBuilt
    /\ LET call == LagrangeBuildAuxTrace(main_trace, builder.width, transcript)
       IN  /\ transcript' = call.transcript
           /\ built' = call.built
    /\ UNCHANGED <<builder, main_trace>>
    /\ UNCHANGED <<oodvars, vervars, polvars, algvars, frmvars, vdfvars>>

\* no builder at hand
BuilderIdle ==
    /\ builder = [kind |-> "none", width |-> 0]
    /\ main_trace = <<>>
    /\ transcript = [pos |-> 0, ops |-> <<>>]
    /\ built = NotBuilt

----------------------------------------------------------------------------
(* VdfProver *)

MaxSteps == 6            \* largest n asked of build_trace

FORTY_TWO == 42
INV_ALPHA == 87

NotTraced == [status |-> "none", steps |-> None, trace |-> <<>>]
NoInputs == [some |-> FALSE, seed |-> 0, result |-> 0]

\* BaseElement::exp in the field of 131 elements, by squaring
RECURSIVE Exp(_, _)
Exp(b, e) ==
    IF e = 0 THEN 1
    ELSE LET h == Exp(b, e \div 2)
         IN  IF e % 2 = 0 THEN (h * h) % 131 ELSE (((h * h) % 131) * b) % 131

\* (state - FORTY_TWO).exp(INV_ALPHA); in the field of 131 elements x -> x^87
\* undoes x -> x^3
VdfStep(state) == Exp((state + 131 - FORTY_TWO) % 131, INV_ALPHA)

\* VdfProver::build_trace. n - 2 on usize: below 2 the subtraction aborts in a
\* build with overflow checks and wraps to a count near the top of usize in a
\* build without them, where the loop then pushes until allocation fails.
BuildTrace(seed, n, overflow_checks) ==
    LET column[i \in 1..(n - 1)] ==
            IF i = 1 THEN seed ELSE VdfStep(column[i - 1])
    IN  IF n < 2
        THEN IF overflow_checks
             THEN [NotTraced EXCEPT !.status = "Panic"]
             ELSE [status |-> "Abort",
                   steps |-> Some(Usize(LimbBase + n - 2, LimbBase - 1, LimbBase - 1)),
                   trace |-> <<>>]
        ELSE [status |-> "Ok", steps |-> Some(Usize(n - 2, 0, 0)),
              trace |-> <<[i \in 1..n |-> IF i = n THEN 123 ELSE column[i]]>>]

\* VdfProver::get_pub_inputs; trace.get(column, step) counts from 0
GetPubInputs(trace) ==
    LET second_to_last_step == Len(trace[1]) - 2
    IN  [some |-> TRUE, seed |-> trace[1][0 + 1], result |-> trace[1][second_to_last_step + 1]]

VdfArgs == [seed : {0, 1, 2, 41, 42, 43, 123, 130}, n : 0..MaxSteps]

BuildTraceCall ==
    /\ vdf_trace = NotTraced
    /\ \E overflow_checks \in BOOLEAN :
           vdf_trace' = BuildTrace(vdf_args.seed, vdf_args.n, overflow_checks)
    /\ UNCHANGED <<vdf_args, pub_inputs>>
    /\ UNCHANGED <<oodvars, vervars, polvars, algvars, frmvars, bldvars>>

GetPubInputsCall ==
    /\ vdf_trace.status = "Ok"
    /\ pub_inputs = NoInputs
    /\ pub_inputs' = GetPubInputs(vdf_trace.trace)
    /\ UNCHANGED <<vdf_args, vdf_trace>>
    /\ UNCHANGED <<oodvars, vervars, polvars, algvars, frmvars, bldvars>>

\* no VDF at hand
VdfIdle ==
    /\ vdf_args = [seed |-> 0, n |-> 0]
    /\ vdf_trace = NotTraced
    /\ pub_inputs = NoInputs

----------------------------------------------------------------------------
(* Specifications *)

\* verify, as the code stands
Init ==
    /\ InitVerify
    /\ OodIdle
    /\ NoWire
    /\ ood_pc = "idle"
    /\ PolicyIdle
    /\ AlgebraIdle
    /\ FramesIdle
    /\ BuilderIdle
    /\ VdfIdle

Next == NextVerify

Spec == Init /\ [][Next]_vars

\* the frame codec
NoRun ==
    /\ VerIdle
    /\ pc = "idle"
    /\ env = [num_trace_commitments |-> 1, has_aux_trace_verifier |-> FALSE,
              air_lagrange_kernel |-> FALSE, ood_lagrange_kernel |-> FALSE,
              ood_evaluation_1 |-> 0, ood_evaluation_2 |-> 0,
              grinding_factor |-> 0, leading_zeros |-> 0]

InitCodec ==
    /\ InitOod
    /\ NoRun
    /\ PolicyIdle
    /\ AlgebraIdle
    /\ FramesIdle
    /\ BuilderIdle
    /\ VdfIdle

SpecOod == InitCodec /\ [][NextOod]_vars

\* the frame's wire form
SpecWire == InitCodec /\ [][NextWire]_vars

\* the codec with Lagrange kernel sequences of up to U8Max elements
SpecLagrange == InitCodec /\ [][NextLagrange]_vars

\* frames deserialized from arbitrary bytes, then parsed
InitBytes ==
    /\ InitSource
    /\ NoRun
    /\ PolicyIdle
    /\ AlgebraIdle
    /\ FramesIdle
    /\ BuilderIdle
    /\ VdfIdle

SpecBytes == InitBytes /\ [][NextBytes]_vars

\* verify with OodFrameTraceStates::hash implemented
NextHashed ==
    \/ VerifyValidate
    \/ VerifySeed
    \/ VerifyChannel
    \/ ReadTraceCommitments
    \/ ProcessAuxSegment
    \/ GenerateAuxRandElements
    \/ DrawCompositionCoefficients
    \/ ReadConstraintCommitment
    \/ EvaluateOodConstraints
    \/ ReseedOodTraceFrameHashed
    \/ ReadOodConstraintEvaluations
    \/ CheckOodConsistency
    \/ DrawDeepCoefficients
    \/ FriCommitPhase
    \/ CheckProofOfWork
    \/ DrawQueryPositions
    \/ ReadQueriedTraceStates
    \/ ReadQueriedConstraintEvaluations
    \/ ComposeDeepEvaluations
    \/ VerifyLowDegree

SpecHashed == Init /\ [][NextHashed]_vars

\* verify called twice on the same inputs
NextTwice ==
    \/ NextHashed
    \/ VerifyAgain

\* the proofs verified twice are those of an AIR with a Lagrange kernel column,
\* whose out-of-domain frame holds the Lagrange kernel frame
InitTwice ==
    /\ Init
    /\ env.air_lagrange_kernel
    /\ env.ood_lagrange_kernel

SpecTwice == InitTwice /\ [][NextTwice]_vars

\* AcceptableOptions::validate on its own
InitValidate ==
    /\ InitPolicy
    /\ AlgebraIdle
    /\ FramesIdle
    /\ BuilderIdle
    /\ VdfIdle
    /\ NoRun
    /\ OodIdle
    /\ NoWire
    /\ ood_pc = "idle"

NextValidate == ValidateCall

SpecPolicy == InitValidate /\ [][NextValidate]_vars

\* evaluate_constraints on its own
InitEvaluate ==
    /\ air \in Airs
    /\ evaluate_args \in EvaluateArgs
    /\ evaluated = NotEvaluated
    /\ fold_args = NoFoldArgs
    /\ folded = None
    /\ NoRun
    /\ OodIdle
    /\ NoWire
    /\ ood_pc = "idle"
    /\ PolicyIdle
    /\ FramesIdle
    /\ BuilderIdle
    /\ VdfIdle

NextEvaluate == EvaluateConstraintsCall

SpecEvaluate == InitEvaluate /\ [][NextEvaluate]_vars

\* the fold on its own
InitFold ==
    /\ fold_args \in FoldArgs
    /\ folded = None
    /\ air = NoAir
    /\ evaluate_args = NoEvaluateArgs
    /\ evaluated = NotEvaluated
    /\ NoRun
    /\ OodIdle
    /\ NoWire
    /\ ood_pc = "idle"
    /\ PolicyIdle
    /\ FramesIdle
    /\ BuilderIdle
    /\ VdfIdle

NextFold == FoldCall

SpecFold == InitFold /\ [][NextFold]_vars

\* main_frame and aux_frame on their own
InitFrames ==
    /\ states \in FrameStates
    /\ main_frame = NoFrame
    /\ aux_frame = NoFrame
    /\ AlgebraIdle
    /\ BuilderIdle
    /\ VdfIdle
    /\ NoRun
    /\ OodIdle
    /\ NoWire
    /\ ood_pc = "idle"
    /\ PolicyIdle

NextFrames ==
    \/ MainFrameCall
    \/ AuxFrameCall

SpecFrames == InitFrames /\ [][NextFrames]_vars

\* one call of an auxiliary trace builder, on a coin already drawn from or not
InitBuilder ==
    /\ builder \in Builders
    /\ main_trace \in MainTraces(builder.kind)
    /\ transcript \in {[pos |-> k, ops |-> <<>>] : k \in 0..2}
    /\ built = NotBuilt
    /\ AlgebraIdle
    /\ FramesIdle
    /\ VdfIdle
    /\ NoRun
    /\ OodIdle
    /\ NoWire
    /\ ood_pc = "idle"
    /\ PolicyIdle

NextBuilder ==
    \/ RescueRapsBuildAuxTraceCall
    \/ LagrangeBuildAuxTraceCall

SpecBuilder == InitBuilder /\ [][NextBuilder]_vars

\* a VDF trace built and its public inputs read
InitVdf ==
    /\ vdf_args \in VdfArgs
    /\ vdf_trace = NotTraced
    /\ pub_inputs = NoInputs
    /\ AlgebraIdle
    /\ FramesIdle
    /\ BuilderIdle
    /\ NoRun
    /\ OodIdle
    /\ NoWire
    /\ ood_pc = "idle"
    /\ PolicyIdle

NextVdf ==
    \/ BuildTraceCall
    \/ GetPubInputsCall

SpecVdf == InitVdf /\ [][NextVdf]_vars

----------------------------------------------------------------------------
(* Claims *)

\* the frame was written by one set_trace_states and one
\* set_constraint_evaluations and parsed with the widths and count it was written with
WrittenThenParsedAlike ==
    /\ parsed.status # "none"
    /\ Len(arg_trace.current_row) >= 1
    /\ arg_evals # <<>>
    /\ parse_args[1] >= 1
    /\ parse_args[1] + parse_args[2] = Len(arg_trace.current_row)
    /\ parse_args[3] = Len(arg_evals)

\* C1: parse after set_trace_states and set_constraint_evaluations, called with
\* the widths and the count that were written, returns Ok with the original
\* current row, the original next row (same order, not swapped) and the
\* original evaluations.
OodRoundTrip ==
    WrittenThenParsedAlike =>
        /\ parsed.status = "Ok"
        /\ parsed.current_row = arg_trace.current_row
        /\ parsed.next_row = arg_trace.next_row
        /\ parsed.evaluations = arg_evals

\* C2: a run of verify ends with Ok or with a VerifierError, never with an abort.
VerifyAlwaysReturns ==
    pc = "done" => result.tag # "Panic"

\* the proof of the test: an auxiliary segment with a Lagrange kernel column, an
\* auxiliary trace verifier, consistent out-of-domain values, a nonce that meets
\* the grinding factor, a policy that accepts it
HonestLagrangeProof ==
    /\ env.num_trace_commitments = 2
    /\ env.has_aux_trace_verifier
    /\ env.air_lagrange_kernel
    /\ env.ood_lagrange_kernel
    /\ env.ood_evaluation_1 = env.ood_evaluation_2
    /\ env.leading_zeros >= env.grinding_factor
    /\ validated = Ok

\* errors that only a failing coin, channel or auxiliary verifier produces
EnvironmentFailure ==
    result.tag \in {"ProofDeserializationError", "RandomCoinError",
                    "AuxTraceVerificationFailed", "FriVerificationFailed",
                    "TraceQueryDoesNotMatchCommitment",
                    "ConstraintQueryDoesNotMatchCommitment"}

\* C3: verification of the honest prover's proof for the Lagrange kernel AIR
\* returns Ok(()) (when neither the coin nor the channel fails).
HonestProofAccepted ==
    (pc = "done" /\ HonestLagrangeProof /\ ~EnvironmentFailure) => result = Ok

\* the coin state at which build_aux_trace draws on the proving side: after the
\* reseed with the main trace commitment, before anything else
BuilderDrawState ==
    <<Ev("coin", "new", "context+pub_inputs", "verify"),
      Ev("coin", "reseed", "main_trace_commitment", "verify")>>

\* C4: the auxiliary random elements passed to evaluate_constraints were drawn
\* at the transcript position of the builder's draws (after the reseed with the
\* main trace commitment, before the reseed with the auxiliary commitment).
AuxRandElementsAgree ==
    (ood_constraint_evaluation_1 # NoValue /\ env.num_trace_commitments > 1) =>
        aux_trace_rand_elements = Some(BuilderDrawState)

\* the coin operations of perform_verification in the prescribed order
PrescribedCoinOrder(aux_segment) ==
    <<<<"reseed", "main_trace_commitment">>>>
    \o (IF aux_segment
        THEN << <<"draw", "aux_rand_elements">>, <<"reseed", "aux_segment_commitment">> >>
        ELSE <<>>)
    \o << <<"draw", "constraint_composition_coefficients">>,
          <<"reseed", "constraint_commitment">>,
          <<"draw", "z">>,
          <<"reseed", "ood_trace_frame">>,
          <<"reseed", "ood_constraint_evaluations">>,
          <<"draw", "deep_composition_coefficients">>,
          <<"fri_commit", "layer_commitments">>,
          <<"check_leading_zeros", "pow_nonce">>,
          <<"draw_integers", "query_positions">> >>

IsPrefix(s, t) == Len(s) <= Len(t) /\ s = SubSeq(t, 1, Len(s))

\* the operations made on the coin after its construction
CoinOpsAfterNew ==
    LET ops == SelectSeq(CoinOps(log), LAMBDA e : e.op # "new")
    IN  [i \in 1..Len(ops) |-> <<ops[i].op, ops[i].arg>>]

\* C5: the coin operations of a run occur in the prescribed order and no other;
\* nothing is drawn between reseed(auxiliary commitment) and the draw of the
\* constraint composition coefficients.
FiatShamirOrder ==
    IsPrefix(CoinOpsAfterNew, PrescribedCoinOrder(env.num_trace_commitments > 1))

AuxDraws == SelectSeq(log, LAMBDA e : e.op = "draw" /\ e.arg = "aux_rand_elements")

\* C6: the auxiliary random elements are drawn once when there is an auxiliary
\* segment and not at all when there is none: never by both the AIR and the
\* auxiliary trace verifier, never by the verifier with one trace commitment.
AuxRandElementsDrawnOnce ==
    /\ Len(AuxDraws) <= (IF env.num_trace_commitments > 1 THEN 1 ELSE 0)
    /\ (pc = "constraint_commitment" /\ env.num_trace_commitments > 1) => Len(AuxDraws) = 1

\* C7: when the value of evaluate_constraints at z differs from the folded
\* composition-column evaluations, verify returns
\* Err(InconsistentOodConstraintEvaluations) and draws no DEEP coefficients.
OodConsistencyGate ==
    (pc = "done" /\ ood_constraint_evaluation_1 # NoValue
        /\ env.ood_evaluation_1 # env.ood_evaluation_2) =>
        /\ result = Err("InconsistentOodConstraintEvaluations")
        /\ \A i \in DOMAIN log : log[i].arg # "deep_composition_coefficients"

\* C8: a run that no earlier step ended returns
\* Err(QuerySeedProofOfWorkVerificationFailed) exactly when the nonce's leading
\* zeros are fewer than the grinding factor.
ProofOfWorkGate ==
    (pc = "done" /\ validated = Ok /\ ~EnvironmentFailure
        /\ result # Err("InconsistentOodConstraintEvaluations")) =>
        (result = Err("QuerySeedProofOfWorkVerificationFailed")
            <=> env.leading_zeros < env.grinding_factor)

QueryUses ==
    {i \in DOMAIN log : log[i].op \in {"read_queried_trace_states",
                                       "read_constraint_evaluations",
                                       "DeepComposer::new", "FriVerifier::verify"}}

StrictlyAscending(s) == \A i \in 1..(Len(s) - 1) : s[i] < s[i + 1]
Values(s) == {s[i] : i \in DOMAIN s}

PolicyCheckedFirst ==
    /\ log # <<>> => log[1].op = "validate"
    /\ \A i \in 2..Len(log) : log[i].op # "validate"
    /\ validated \notin {Running, Ok} =>
          /\ pc = "done"
          /\ result = validated
          /\ log = <<Ev("policy", "validate", "proof", "verify")>>

\* a run that the policy ended
PolicyRejected ==
    /\ pc = "done"
    /\ result.tag = "InsufficientProvenSecurity"
    /\ Len(log) = 1

\* C11: MinConjecturedSecurity(k) returns InsufficientConjecturedSecurity(k, s)
\* when the proof's conjectured security s is below k and Ok otherwise;
\* MinProvenSecurity(k) does the same with the proven security and
\* InsufficientProvenSecurity(k, s); the floor comes first, the proof's level second.
SecurityFloorPolicy ==
    validate_result # Running =>
        /\ acceptable_options.kind = "MinConjecturedSecurity" =>
              validate_result =
                  IF proof.conjectured < acceptable_options.min
                  THEN [tag |-> "InsufficientConjecturedSecurity",
                        a |-> acceptable_options.min, b |-> proof.conjectured]
                  ELSE Ok
        /\ acceptable_options.kind = "MinProvenSecurity" =>
              validate_result =
                  IF proof.proven < acceptable_options.min
                  THEN [tag |-> "InsufficientProvenSecurity",
                        a |-> acceptable_options.min, b |-> proof.proven]
                  ELSE Ok

\* a proof below the conjectured floor whose proven level differs from the
\* conjectured one, rejected
SecurityFloorRejected ==
    /\ acceptable_options.kind = "MinConjecturedSecurity"
    /\ proof.conjectured < acceptable_options.min
    /\ proof.proven # proof.conjectured
    /\ validate_result.tag = "InsufficientConjecturedSecurity"

\* C12: OptionSet(list) returns Ok exactly when the proof's options equal an
\* element of list and UnacceptableProofOptions otherwise; the empty list
\* rejects every proof.
AllowListPolicy ==
    (validate_result # Running /\ acceptable_options.kind = "OptionSet") =>
        /\ validate_result = Ok <=> proof.options \in acceptable_options.options
        /\ validate_result # Ok => validate_result = Err("UnacceptableProofOptions")
        /\ acceptable_options.options = {} => validate_result # Ok

\* a proof rejected by the empty allow-list
EmptyAllowListRejects ==
    /\ acceptable_options = OptionSet({})
    /\ validate_result = Err("UnacceptableProofOptions")

StoredBytes == <<trace_states, lagrange_kernel_trace_states, evaluations>>

\* C13: set_trace_states on a frame whose trace states are set fails (a first
\* call, even with zero columns and no Lagrange frame, sets them);
\* set_constraint_evaluations fails on a frame whose evaluations are set and
\* with an empty sequence; a failed call leaves the stored bytes as they were.
WriteOnce ==
    [][/\ (last_call'.op = "set_trace_states" /\ trace_states # <<>>) =>
              (ood_pc' = "panic" /\ StoredBytes' = StoredBytes)
       /\ (last_call'.op = "set_trace_states" /\ ood_pc' # "panic") =>
              trace_states' # <<>>
       /\ (last_call'.op = "set_constraint_evaluations"
              /\ (evaluations # <<>> \/ last_call'.n = 0)) =>
              (ood_pc' = "panic" /\ StoredBytes' = StoredBytes)
       /\ (last_call'.op = "set_constraint_evaluations" /\ ood_pc' # "panic") =>
              evaluations' # <<>>
       /\ ood_pc' = "panic" => StoredBytes' = StoredBytes]_vars

\* a second set_trace_states that failed after a first one made with zero
\* columns and no Lagrange frame
SecondSetTraceStatesFailed ==
    /\ ood_pc = "panic"
    /\ last_call.op = "set_trace_states"
    /\ arg_trace = NoTraceStates
    /\ trace_states = <<FrameSize>>
    /\ evaluations # <<>>

ParseRejectsTrailingBytes ==
    parsed.status = "Ok" =>
        /\ Len(trace_states) =
               1 + (parse_args[1] + parse_args[2]) * Head(trace_states) * ElementBytes
        /\ Len(lagrange_kernel_trace_states) =
               1 + Head(lagrange_kernel_trace_states) * ElementBytes
        /\ Len(evaluations) = parse_args[3] * ElementBytes

\* C15: with main_trace_width >= 1 and num_evaluations >= 1, parse of a frame
\* read from any bytes returns Ok or Err(DeserializationError); it never aborts.
ParseNeverAborts ==
    (parsed.status # "none" /\ parse_args[1] >= 1 /\ parse_args[3] >= 1) =>
        parsed.status \in {"Ok", "Err"}

\* C19: read_from on the bytes write_into wrote returns a frame with the three
\* regions as they were written and consumes all the bytes written, also when
\* a region is 65536 bytes or longer.
WireRoundTrip ==
    [][(last_call.op = "write_into" /\ last_call'.op = "read_from") =>
          /\ ood_pc' = "live"
          /\ StoredBytes' = StoredBytes
          /\ wire' = <<>>]_vars

FailingStep(tag) ==
    CASE tag \in {"InsufficientConjecturedSecurity", "InsufficientProvenSecurity",
                  "UnacceptableProofOptions"} -> {<<"policy", "validate">>}
      [] tag = "ProofDeserializationError" -> {<<"channel", "new">>}
      [] tag = "RandomCoinError" -> {<<"coin", "draw">>, <<"coin", "draw_integers">>}
      [] tag = "AuxTraceVerificationFailed" -> {<<"coin", "draw">>}
      [] tag = "InconsistentOodConstraintEvaluations" -> {<<"coin", "reseed">>}
      [] tag = "FriVerificationFailed" ->
            {<<"coin", "fri_commit">>, <<"fri", "FriVerifier::verify">>}
      [] tag = "QuerySeedProofOfWorkVerificationFailed" -> {<<"coin", "check_leading_zeros">>}
      [] tag = "TraceQueryDoesNotMatchCommitment" ->
            {<<"channel", "read_queried_trace_states">>}
      [] tag = "ConstraintQueryDoesNotMatchCommitment" ->
            {<<"channel", "read_constraint_evaluations">>}
      [] tag = "Ok" -> {<<"fri", "FriVerifier::verify">>}
      [] tag = "Panic" -> {<<"channel", "read_ood_trace_frame">>}

LastOperation == <<log[Len(log)].k, log[Len(log)].op>>

Acceptable(e) ==
    /\ e.ood_evaluation_1 = e.ood_evaluation_2
    /\ e.leading_zeros >= e.grinding_factor
    /\ e.ood_lagrange_kernel = e.air_lagrange_kernel

\* the proof of this run is such a proof with one byte changed: in the
\* composition-column evaluations (their fold at z changes), in the Lagrange
\* kernel region (its count byte becomes 0 and parse returns no frame), or in
\* the nonce (its leading zeros change)
TamperedFromAccepted ==
    \E original \in Envs :
        /\ Acceptable(original)
        /\ \/ \E v \in EvalValues \ {original.ood_evaluation_2} :
                 env = [original EXCEPT !.ood_evaluation_2 = v]
           \/ /\ original.ood_lagrange_kernel
              /\ env = [original EXCEPT !.ood_lagrange_kernel = FALSE]
           \/ \E n \in 0..(MaxGrinding + 1) \ {original.leading_zeros} :
                 env = [original EXCEPT !.leading_zeros = n]

TermNames == {evaluated.terms[i][1] : i \in DOMAIN evaluated.terms}

\* C22: whenever the AIR has a Lagrange kernel column, evaluate_constraints
\* adds the Lagrange kernel transition and boundary contributions, also when
\* the frame of the proof holds no Lagrange kernel frame.
LagrangeChecksFromDescriptor ==
    (evaluated.status # "none" /\ air.lagrange_kernel_constraint) =>
        /\ evaluated.status = "Ok"
        /\ "lagrange_kernel_transition" \in TermNames
        /\ "lagrange_kernel_boundary" \in TermNames

\* C23: evaluate_constraints returns a value for every input, never aborts,
\* and the value has the Lagrange kernel boundary term, taken at the first
\* coordinate of the Lagrange frame, exactly when the descriptor has a Lagrange
\* kernel boundary constraint.
LagrangeBoundaryTerm ==
    evaluated.status # "none" =>
        /\ evaluated.status = "Ok"
        /\ "lagrange_kernel_boundary" \in TermNames <=> air.lagrange_kernel_constraint
        /\ \A i \in DOMAIN evaluated.terms :
              evaluated.terms[i][1] = "lagrange_kernel_boundary" =>
                  /\ evaluate_args.lagrange_kernel_column_frame.some
                  /\ evaluated.terms[i][2] = evaluate_args.lagrange_kernel_column_frame.val[1]

\* the summands the transition, the main boundary groups and the auxiliary
\* boundary groups make, with the Lagrange kernel transition term when a
\* Lagrange frame is supplied
TransitionAndBoundaryTerms ==
    {Term("transition", 0)}
    \cup (IF evaluate_args.lagrange_kernel_column_frame.some
          THEN {Term("lagrange_kernel_transition", 0)} ELSE {})
    \cup {Term("main_boundary", g) : g \in 1..air.main_boundary_groups}
    \cup (IF evaluate_args.aux_trace_frame
          THEN {Term("aux_boundary", g) : g \in 1..air.aux_boundary_groups} ELSE {})

\* the Lagrange kernel boundary term of a call with a Lagrange frame
LagrangeBoundaryTerms ==
    IF evaluate_args.lagrange_kernel_column_frame.some
    THEN {Term("lagrange_kernel_boundary", evaluate_args.lagrange_kernel_column_frame.val[1])}
    ELSE {}

\* the auxiliary transition evaluator is called exactly when there is an
\* auxiliary frame and an auxiliary transition constraint
AuxTransitionCalledWhenNeeded ==
    evaluated.aux_transition_called <=>
        (evaluate_args.aux_trace_frame /\ air.num_aux_constraints > 0)

PeriodicAtCycles ==
    evaluated.status = "Ok" =>
        evaluated.periodic_values =
            [k \in DOMAIN air.periodic_column_polys |->
                PolyEval(air.periodic_column_polys[k],
                         ExpVartime(evaluate_args.x,
                                    DivSmall(air.trace_length,
                                             Len(air.periodic_column_polys[k]))))]

\* the sum over i of z^(i * trace_length) * value_i, from column i on
RECURSIVE PowerSumFrom(_)
PowerSumFrom(i) ==
    IF i >= Len(fold_args.values) THEN 0
    ELSE (ExpVartime(fold_args.z, MulSmall(i, fold_args.trace_length))
              * fold_args.values[i + 1]
          + PowerSumFrom(i + 1)) % Modulus

\* C25: the fold of the composition-column evaluations is the sum over i of
\* z^(i * trace_length) * value_i, also when i * trace_length is 2^32 or more.
FoldIsPowerSum ==
    folded.some => folded.val = PowerSumFrom(0)

\* the places of the log where `op` was made on `arg`
Made(op, arg) == {i \in DOMAIN log : log[i].op = op /\ log[i].arg = arg}

\* C24: a run that has evaluated the constraints at z reseeds the coin once
\* with the digest of the whole out-of-domain trace frame, after the draw of z
\* and before anything else is done.
OodReseedAgreement ==
    (pc = "done" /\ ood_constraint_evaluation_1 # NoValue) =>
        /\ Cardinality(Made("reseed", "ood_trace_frame")) = 1
        /\ \A i \in Made("reseed", "ood_trace_frame") :
              /\ \E j \in Made("draw", "z") : j < i
              /\ log[i - 1].op = "read_ood_trace_frame"
              /\ \A j \in Made("read_ood_constraint_evaluations", "") : i < j

DrawSteps == {"aux_segment", "composition_coefficients", "constraint_commitment",
              "deep_coefficients"}
\* the steps of the FRI verifier
FriSteps == {"fri_commit", "fri_verify"}

----------------------------------------------------------------------------
(* The Lagrange kernel element count *)

\* C31: every Lagrange kernel sequence of fewer than 256 elements is accepted
\* by set_trace_states, its count is written as the first byte of the Lagrange
\* region, and a successful parse reads back as many elements as were written
LagrangeCountInOneByte ==
    LET n == Len(LagrangeStatesOf(arg_trace))
    IN  (trace_states # <<>> /\ n < 256) =>
            /\ lagrange_kernel_trace_states # <<>>
            /\ lagrange_kernel_trace_states[1] = n
            /\ parsed.status = "Ok" => Len(parsed.lagrange_kernel_frame.val) = n

----------------------------------------------------------------------------
(* The shape of parsed trace states, and their frames *)

\* C32: whenever parse returns Ok, the returned current_row and next_row each
\* hold main_trace_width + aux_trace_width elements and the returned evaluations
\* hold num_evaluations elements, whatever the bytes of the frame are, so that
\* main_frame() on the result stays within the rows
ParsedShape ==
    parsed.status = "Ok" =>
        /\ Len(parsed.current_row) = parse_args[1] + parse_args[2]
        /\ Len(parsed.next_row) = parse_args[1] + parse_args[2]
        /\ Len(parsed.evaluations) = parse_args[3]
        /\ MainFrame(parsed).status = "Ok"

\* the row a frame holds, empty when there is no frame
RowOf(f, row) == IF f.frame.some THEN f.frame.val[row] ELSE <<>>

\* C33: for rows of width w and main width m <= w, main_frame() holds columns
\* [0, m) of both rows, aux_frame() is Some exactly when w > m and then holds
\* columns [m, w), and every column is in exactly one of the two frames
FramesPartition ==
    LET w == Len(states.current_row)
        m == states.main_trace_width
        InFrames(row, name) ==
            /\ main_frame.status # "none" =>
                   /\ main_frame.status = "Ok" /\ main_frame.frame.some
                   /\ Len(RowOf(main_frame, name)) = m
                   /\ \A c \in 1..m : RowOf(main_frame, name)[c] = row[c]
            /\ aux_frame.status # "none" =>
                   /\ aux_frame.frame.some <=> w > m
                   /\ Len(RowOf(aux_frame, name)) = w - m
                   /\ \A c \in (m + 1)..w : RowOf(aux_frame, name)[c - m] = row[c]
    IN  m <= w =>
            /\ InFrames(states.current_row, "current")
            /\ InFrames(states.next_row, "next")

\* both frames were taken of rows with main and auxiliary columns
BothFramesTaken ==
    /\ Len(states.current_row) > states.main_trace_width
    /\ states.main_trace_width > 0
    /\ main_frame.status = "Ok"
    /\ aux_frame.status = "Ok" /\ aux_frame.frame.some

\* both frames were taken of rows without auxiliary columns
NoAuxFrameTaken ==
    /\ Len(states.current_row) = states.main_trace_width
    /\ states.main_trace_width > 0
    /\ main_frame.status = "Ok"
    /\ aux_frame.status = "Ok" /\ ~aux_frame.frame.some

----------------------------------------------------------------------------
(* Auxiliary trace builders *)

\* the elements of the draws recorded on the transcript, in order
DrawnElements == [i \in DOMAIN transcript.ops |-> transcript.ops[i][2]]

\* C34: a builder that returns hands back in aux_rand_eles exactly the elements
\* it drew, in draw order; nothing but draws happens on the transcript during
\* the call; every auxiliary column has as many rows as the main trace; the
\* RescueRaps builder draws aux_segment_width elements and returns
\* aux_segment_width columns and no side proof; the Lagrange builder draws
\* log2(trace_length) elements and returns aux_trace_width columns
BuilderContract ==
    built.status = "Ok" =>
        /\ built.aux_rand_eles = DrawnElements
        /\ \A i \in DOMAIN transcript.ops : transcript.ops[i][1] = "draw"
        /\ \A c \in DOMAIN built.aux_trace :
               Len(built.aux_trace[c]) = NumRows(main_trace)
        /\ Len(built.aux_trace) = builder.width
        /\ builder.kind = "rescue_raps" =>
               /\ Len(DrawnElements) = builder.width
               /\ built.aux_proof = None
        /\ builder.kind = "lagrange" =>
               2 ^ Len(DrawnElements) = NumRows(main_trace)

\* a builder returned after more than one draw, not all of the same element
BuilderReturned ==
    /\ built.status = "Ok"
    /\ Len(built.aux_rand_eles) > 1
    /\ built.aux_rand_eles[1] # built.aux_rand_eles[2]

----------------------------------------------------------------------------
(* The VDF trace *)

\* C35: for n >= 2 build_trace(seed, n) returns one column of exactly n rows:
\* row 0 is seed, row i + 1 is (row i - 42)^INV_ALPHA for 0 <= i < n - 2, the
\* last row is 123; get_pub_inputs reports row 0 as seed and row n - 2 as
\* result. For n < 2 no wrapped count n - 2 is ever computed.
VdfTrace ==
    LET n == vdf_args.n
        column == vdf_trace.trace[1]
    IN  vdf_trace.status # "none" =>
            /\ n >= 2 =>
                   /\ vdf_trace.status = "Ok"
                   /\ Len(vdf_trace.trace) = 1
                   /\ Len(column) = n
                   /\ column[1] = vdf_args.seed
                   /\ \A i \in 0..(n - 3) : column[i + 2] = VdfStep(column[i + 1])
                   /\ column[n] = 123
                   /\ pub_inputs.some =>
                          /\ pub_inputs.seed = column[1]
                          /\ pub_inputs.result = column[n - 1]
            /\ n < 2 => ~vdf_trace.steps.some

\* the rows and the public inputs are as stated whenever n >= 2
VdfTraceFromTwo ==
    vdf_args.n >= 2 => VdfTrace

====
